---------------------------- MODULE Spec2Model ----------------------------
(***************************************************************************)
(* Frequency inference, frequency comparison and business-calendar offsets *)
(* of pandas.tseries.                                                      *)
(*                                                                         *)
(* A timestamp (an int64 count of units of the index resolution since the  *)
(* epoch 1970-01-01) is kept in mixed radix as a record                    *)
(*     [d |-> whole days, s |-> seconds of the day, f |-> units of the     *)
(*      second]                                                            *)
(* with 0 <= s < 86400 and 0 <= f < UnitsPerSecond(creso), so that its     *)
(* value is (d * 86400 + s) * UnitsPerSecond(creso) + f.  A difference of  *)
(* two timestamps is kept the same way (d may be negative: the floor       *)
(* convention of Python's // and %).                                       *)
(***************************************************************************)
EXTENDS Integers, Sequences, FiniteSets, TLC

VARIABLES
    family,     \* the generator the input index is drawn from
    container,  \* "Index" or "Series": what infer_freq is handed
    dtype,      \* dtype of the input: "M8", "m8", "period", "i", "u", "f", "c", "b"
    creso,      \* resolution of the underlying int64 values: "s", "ms", "us", "ns"
    tz,         \* "naive" or a time zone name
    index,      \* the input values (UTC), a sequence of timestamps
    result,     \* Pending, or the outcome of infer_freq(index)
    source,     \* is_subperiod / is_superperiod: first argument
    target,     \* is_subperiod / is_superperiod: second argument
    cmp,        \* outcome of the comparison call
    offset,     \* the DateOffset object under test
    ts,         \* the timestamp handed to the offset
    out,        \* outcome of the offset call
    call,       \* a constructor or calendar function with its arguments
    ret         \* outcome of that call

vars == <<family, container, dtype, creso, tz, index, result,
          source, target, cmp, offset, ts, out, call, ret>>

inferVars == <<family, container, dtype, creso, tz, index, result>>
cmpVars == <<source, target, cmp>>
offsetVars == <<offset, ts, out>>
callVars == <<call, ret>>

-----------------------------------------------------------------------------
(* Bounds of the model *)

\* longest input index handed to infer_freq
MaxLen == 4

-----------------------------------------------------------------------------
(* Calendar primitives *)

SecondsPerDay == 24 * 3600

Stamp(d, s, f) == [d |-> d, s |-> s, f |-> f]

UnitsPerSecond(reso) ==
    CASE reso = "s"  -> 1
      [] reso = "ms" -> 1000
      [] reso = "us" -> 1000 * 1000
      [] reso = "ns" -> 1000 * 1000 * 1000

is_leap_year(y) == y % 4 = 0 /\ (y % 100 # 0 \/ y % 400 = 0)

get_days_in_month(y, m) ==
    IF m = 2 THEN (IF is_leap_year(y) THEN 29 ELSE 28)
    ELSE IF m \in {4, 6, 9, 11} THEN 30 ELSE 31

\* proleptic Gregorian date of the day number z (days since 1970-01-01)
DateOfDay(z) ==
    LET z1  == z + 719468
        era == z1 \div 146097
        doe == z1 - era * 146097
        yoe == (doe - doe \div 1460 + doe \div 36524 - doe \div 146096) \div 365
        doy == doe - (365 * yoe + yoe \div 4 - yoe \div 100)
        mp  == (5 * doy + 2) \div 153
        dd  == doy - (153 * mp + 2) \div 5 + 1
        mm  == IF mp < 10 THEN mp + 3 ELSE mp - 9
        yy  == yoe + era * 400 + (IF mm <= 2 THEN 1 ELSE 0)
    IN  [Y |-> yy, M |-> mm, D |-> dd]

\* day number of the Gregorian date (y, m, d)
DayOfDate(y, m, d) ==
    LET y1  == IF m <= 2 THEN y - 1 ELSE y
        era == y1 \div 400
        yoe == y1 - era * 400
        mp  == IF m > 2 THEN m - 3 ELSE m + 9
        doy == (153 * mp + 2) \div 5 + d - 1
        doe == yoe * 365 + yoe \div 4 - yoe \div 100 + doy
    IN  era * 146097 + doe - 719468

\* Monday = 0 .. Sunday = 6; 1970-01-01 was a Thursday
Weekday(z) == (z + 3) % 7

int_to_weekday(wd) == <<"MON", "TUE", "WED", "THU", "FRI", "SAT", "SUN">>[wd + 1]

MONTH_ALIASES(m) ==
    <<"JAN", "FEB", "MAR", "APR", "MAY", "JUN",
      "JUL", "AUG", "SEP", "OCT", "NOV", "DEC">>[m]


-----------------------------------------------------------------------------
(* int64 arithmetic on mixed-radix values *)

TotalSeconds(x) == x.d * SecondsPerDay + x.s

IsZero(x) == x.d = 0 /\ x.s = 0 /\ x.f = 0

\* a < b as integers
Less(a, b) ==
    \/ a.d < b.d
    \/ a.d = b.d /\ a.s < b.s
    \/ a.d = b.d /\ a.s = b.s /\ a.f < b.f

\* a - b
Minus(a, b, reso) ==
    LET U  == UnitsPerSecond(reso)
        f0 == a.f - b.f
        fb == IF f0 < 0 THEN 1 ELSE 0
        s0 == a.s - b.s - fb
        sb == IF s0 < 0 THEN 1 ELSE 0
    IN  Stamp(a.d - b.d - sb, s0 + sb * SecondsPerDay, f0 + fb * U)

\* a + b
Plus(a, b, reso) ==
    LET U  == UnitsPerSecond(reso)
        f0 == a.f + b.f
        fc == IF f0 >= U THEN 1 ELSE 0
        s0 == a.s + b.s + fc
        sc == IF s0 >= SecondsPerDay THEN 1 ELSE 0
    IN  Stamp(a.d + b.d + sc, s0 - sc * SecondsPerDay, f0 - fc * U)

\* a float that is the quotient of two integers: its floor, and whether it is whole
Float(q, exact) == [q |-> q, exact |-> exact]

Whole(k) == Float(k, TRUE)

\* an integer number of periods: secs > 0 stands for secs * UnitsPerSecond(reso)
\* units, secs = 0 for `units` units
Periods(secs, units) == [secs |-> secs, units |-> units]

periods_per_day(reso) == Periods(SecondsPerDay, 0)

\* p // k for the periods p of resolution reso
FloorDivPeriods(p, k, reso) ==
    IF p.secs > 0 /\ p.secs % k = 0 THEN Periods(p.secs \div k, 0)
    ELSE IF p.secs > 0 THEN Periods(0, (p.secs * UnitsPerSecond(reso)) \div k)
    ELSE Periods(0, p.units \div k)

\* us / mult as Python's true division of an int64 by an int
TrueDiv(us, mult, reso) ==
    IF mult.secs > 0
    THEN Float(TotalSeconds(us) \div mult.secs,
               us.f = 0 /\ TotalSeconds(us) % mult.secs = 0)
    ELSE Float(TotalSeconds(us) * (UnitsPerSecond(reso) \div mult.units)
                   + us.f \div mult.units,
               us.f % mult.units = 0)

RECURSIVE SortedStamps(_)
SortedStamps(S) ==
    IF S = {} THEN <<>>
    ELSE LET m == CHOOSE x \in S : \A y \in S : ~Less(y, x)
         IN  <<m>> \o SortedStamps(S \ {m})

RECURSIVE SortedInts(_)
SortedInts(S) ==
    IF S = {} THEN <<>>
    ELSE LET m == CHOOSE x \in S : \A y \in S : x <= y
         IN  <<m>> \o SortedInts(S \ {m})

\* sorted distinct first differences of int64 values
unique_deltas(arr, reso) ==
    SortedStamps({Minus(arr[i + 1], arr[i], reso) : i \in 1..(Len(arr) - 1)})

\* the same for plain (small) integers
unique_deltas_int(arr) ==
    SortedInts({arr[i + 1] - arr[i] : i \in 1..(Len(arr) - 1)})

\* distinct values of an integer array
unique(arr) == {arr[i] : i \in DOMAIN arr}

-----------------------------------------------------------------------------
(* The index handed to infer_freq *)

_is_monotonic_increasing(idx) ==
    \A i \in 1..(Len(idx) - 1) : ~Less(idx[i + 1], idx[i])

_is_monotonic_decreasing(idx) ==
    \A i \in 1..(Len(idx) - 1) : ~Less(idx[i], idx[i + 1])

_is_unique(idx) == \A i, j \in DOMAIN idx : i # j => idx[i] # idx[j]

\* UTC offset in seconds of the zone at the UTC instant x: zone "DST" is one hour
\* ahead of UTC before its transition and two hours ahead from it on
TzTransition == Stamp(DayOfDate(2021, 3, 28), 3600, 0)

utcoffset(zone, x) ==
    IF zone = "DST" THEN (IF Less(x, TzTransition) THEN 3600 ELSE 7200) ELSE 0

tz_convert_from_utc(values, zone, reso) ==
    [i \in DOMAIN values |->
        Plus(values[i], Stamp(0, utcoffset(zone, values[i]), 0), reso)]

-----------------------------------------------------------------------------
(* Outcomes of a call *)

None == "None"

Pending == [kind |-> "pending", value |-> ""]

Return(v) == [kind |-> "return", value |-> v]

Raise(e) == [kind |-> "raise", value |-> e]

-----------------------------------------------------------------------------
(* _FrequencyInferer *)

\* the inferer object built by __init__ (its length check is in infer_freq below)
FrequencyInferer(idx, zone, reso, isTimedelta) ==
    [index       |-> idx,
     i8values    |-> IF zone # "naive" THEN tz_convert_from_utc(idx, zone, reso)
                     ELSE idx,
     creso       |-> reso,
     timedelta   |-> isTimedelta,
     is_monotonic |-> _is_monotonic_increasing(idx) \/ _is_monotonic_decreasing(idx)]

deltas(self) == unique_deltas(self.i8values, self.creso)

deltas_asi8(self) == unique_deltas(self.index, self.creso)

is_unique(self) == Len(deltas(self)) = 1

\* variant of is_unique_asi8 that looks at the localized deltas
IsUniqueLocalized(self) == Len(deltas(self)) = 1

is_unique_asi8(self) == Len(deltas_asi8(self)) = 1

day_deltas(self) ==
    [i \in DOMAIN deltas(self) |->
        TrueDiv(deltas(self)[i], periods_per_day(self.creso), self.creso)]

\* variant of hour_deltas that counts the deltas in minutes
HourDeltasInMinutes(self) ==
    LET pph == FloorDivPeriods(periods_per_day(self.creso), 24, self.creso)
        ppm == FloorDivPeriods(pph, 60, self.creso)
    IN  [i \in DOMAIN deltas(self) |-> TrueDiv(deltas(self)[i], ppm, self.creso)]

hour_deltas(self) ==
    LET pph == FloorDivPeriods(periods_per_day(self.creso), 24, self.creso)
    IN  [i \in DOMAIN deltas(self) |-> TrueDiv(deltas(self)[i], pph, self.creso)]

\* year, month and day of every element (build_field_sarray)
fields(self) == [i \in DOMAIN self.i8values |-> DateOfDay(self.i8values[i].d)]

\* index.dayofweek / index.weekday: the weekday of every element, in local time
dayofweek(self) == [i \in DOMAIN self.i8values |-> Weekday(self.i8values[i].d)]

\* day number of Timestamp(value): the value is read as a count of nanoseconds
TimestampDay(value, reso) ==
    IF reso = "ns" THEN value.d
    ELSE IF reso = "us" THEN TotalSeconds(value) \div (SecondsPerDay * 1000)
    ELSE IF TotalSeconds(value) >= 0 THEN 0 ELSE -1

rep_stamp(self) == TimestampDay(self.i8values[1], self.creso)

month_position_check(flds, weekdays) ==
    LET n == Len(flds)
        dim(i) == get_days_in_month(flds[i].Y, flds[i].M)
        calendar_start == \A i \in 1..n : flds[i].D = 1
        business_start ==
            \A i \in 1..n : flds[i].D = 1 \/ (flds[i].D <= 3 /\ weekdays[i] = 0)
        calendar_end == \A i \in 1..n : flds[i].D = dim(i)
        business_end ==
            \A i \in 1..n :
                flds[i].D = dim(i) \/ (dim(i) - flds[i].D < 3 /\ weekdays[i] = 4)
    IN  IF calendar_end THEN "ce"
        ELSE IF business_end THEN "be"
        ELSE IF calendar_start THEN "cs"
        ELSE IF business_start THEN "bs"
        ELSE None

mdiffs(self) ==
    unique_deltas_int([i \in DOMAIN fields(self) |->
                          fields(self)[i].Y * 12 + fields(self)[i].M])

ydiffs(self) ==
    unique_deltas_int([i \in DOMAIN fields(self) |-> fields(self)[i].Y])

_is_multiple(us, mult) ==
    IF mult.secs > 0 THEN us.f = 0 /\ TotalSeconds(us) % mult.secs = 0
    ELSE IF mult.units = 0 THEN TRUE
    ELSE us.f % mult.units = 0

\* variant of _maybe_add_count that prefixes the count even when it is 1
MaybeAddCountAlways(base, count) ==
    IF count.exact THEN Return(ToString(count.q) \o base)
    ELSE Raise("AssertionError")

_maybe_add_count(base, count) ==
    IF count # Whole(1)
    THEN IF count.exact THEN Return(ToString(count.q) \o base)
         ELSE Raise("AssertionError")
    ELSE Return(base)

PositionAlias(pos_check, cs, bs, ce, be) ==
    CASE pos_check = "cs" -> cs
      [] pos_check = "bs" -> bs
      [] pos_check = "ce" -> ce
      [] pos_check = "be" -> be
      [] OTHER -> None

_get_annual_rule(self) ==
    IF Len(ydiffs(self)) > 1 THEN None
    ELSE IF Cardinality(unique([i \in DOMAIN fields(self) |-> fields(self)[i].M])) > 1
    THEN None
    ELSE PositionAlias(month_position_check(fields(self), dayofweek(self)),
                       "AS", "BAS", "A", "BA")

\* variant of _get_quarterly_rule without the test that the months apart
\* are a multiple of 3
GetQuarterlyRuleUnguarded(self) ==
    IF Len(mdiffs(self)) > 1 THEN None
    ELSE PositionAlias(month_position_check(fields(self), dayofweek(self)),
                       "QS", "BQS", "Q", "BQ")

_get_quarterly_rule(self) ==
    IF Len(mdiffs(self)) > 1 THEN None
    ELSE IF ~(mdiffs(self)[1] % 3 = 0) THEN None
    ELSE PositionAlias(month_position_check(fields(self), dayofweek(self)),
                       "QS", "BQS", "Q", "BQ")

_get_monthly_rule(self) ==
    IF Len(mdiffs(self)) > 1 THEN None
    ELSE PositionAlias(month_position_check(fields(self), dayofweek(self)),
                       "MS", "BMS", "M", "BM")

\* variant of _get_daily_rule without the weekly case
GetDailyRuleNoWeekly(self) ==
    _maybe_add_count("D", TrueDiv(deltas(self)[1], periods_per_day(self.creso),
                                  self.creso))

_get_daily_rule(self) ==
    LET days == TrueDiv(deltas(self)[1], periods_per_day(self.creso), self.creso)
    IN  IF days.exact /\ days.q % 7 = 0
        THEN _maybe_add_count("W-" \o int_to_weekday(Weekday(rep_stamp(self))),
                              Float(days.q \div 7, TRUE))
        ELSE _maybe_add_count("D", days)

\* seq[1] + ... + seq[i]
RECURSIVE CumSum(_, _)
CumSum(seq, i) == IF i = 0 THEN 0 ELSE seq[i] + CumSum(seq, i - 1)

\* variant of _is_business_daily that stops after the quick check
IsBusinessDailyQuick(self) == day_deltas(self) = <<Whole(1), Whole(3)>>

_is_business_daily(self) ==
    IF day_deltas(self) # <<Whole(1), Whole(3)>> THEN FALSE
    ELSE
      LET first_weekday == Weekday(self.i8values[1].d)
          n == Len(self.i8values)
          \* floor_divide(diff(i8values), ppd)
          shifts == [i \in 1..(n - 1) |->
                        Minus(self.i8values[i + 1], self.i8values[i], self.creso).d]
          weekdays == [i \in 1..(n - 1) |-> (first_weekday + CumSum(shifts, i)) % 7]
      IN  \A i \in 1..(n - 1) :
              \/ weekdays[i] = 0 /\ shifts[i] = 3
              \/ weekdays[i] > 0 /\ weekdays[i] <= 4 /\ shifts[i] = 1

\* variant of _get_wom_rule that keeps the fifth week of the month
GetWomRuleFiveWeeks(self) ==
    LET weekdays == unique(dayofweek(self))
        week_of_months ==
            unique([i \in DOMAIN fields(self) |-> (fields(self)[i].D - 1) \div 7])
    IN  IF Cardinality(weekdays) > 1 THEN None
        ELSE IF Cardinality(week_of_months) = 0 \/ Cardinality(week_of_months) > 1
        THEN None
        ELSE LET week == (CHOOSE w \in week_of_months : TRUE) + 1
                 wd   == int_to_weekday(CHOOSE w \in weekdays : TRUE)
             IN  "WOM-" \o ToString(week) \o wd

_get_wom_rule(self) ==
    LET weekdays == unique(dayofweek(self))
        week_of_months ==
            {w \in unique([i \in DOMAIN fields(self) |->
                              (fields(self)[i].D - 1) \div 7]) : w < 4}
    IN  IF Cardinality(weekdays) > 1 THEN None
        ELSE IF Cardinality(week_of_months) = 0 \/ Cardinality(week_of_months) > 1
        THEN None
        ELSE LET week == (CHOOSE w \in week_of_months : TRUE) + 1
                 wd   == int_to_weekday(CHOOSE w \in weekdays : TRUE)
             IN  "WOM-" \o ToString(week) \o wd

\* variant of _infer_daily_rule that tries the monthly rule first
InferDailyRuleMonthlyFirst(self) ==
    LET annual_rule    == _get_annual_rule(self)
        quarterly_rule == _get_quarterly_rule(self)
        monthly_rule   == _get_monthly_rule(self)
        wom_rule       == _get_wom_rule(self)
        rep_month      == DateOfDay(rep_stamp(self)).M
    IN  IF monthly_rule # None
        THEN _maybe_add_count(monthly_rule, Whole(mdiffs(self)[1]))
        ELSE IF annual_rule # None
        THEN _maybe_add_count(annual_rule \o "-" \o MONTH_ALIASES(rep_month),
                              Whole(ydiffs(self)[1]))
        ELSE IF is_unique(self) THEN _get_daily_rule(self)
        ELSE IF _is_business_daily(self) THEN Return("B")
        ELSE IF wom_rule # None THEN Return(wom_rule)
        ELSE Return(None)

_infer_daily_rule(self) ==
    IF self.timedelta
    THEN \* _TimedeltaFrequencyInferer._infer_daily_rule
         IF is_unique(self) THEN _get_daily_rule(self) ELSE Return(None)
    ELSE
      LET annual_rule    == _get_annual_rule(self)
          quarterly_rule == _get_quarterly_rule(self)
          monthly_rule   == _get_monthly_rule(self)
          wom_rule       == _get_wom_rule(self)
          rep_month      == DateOfDay(rep_stamp(self)).M
      IN  IF annual_rule # None
          THEN _maybe_add_count(annual_rule \o "-" \o MONTH_ALIASES(rep_month),
                                Whole(ydiffs(self)[1]))
          ELSE IF quarterly_rule # None
          THEN LET mod_dict(k) == CASE k = 0 -> 12 [] k = 2 -> 11 [] k = 1 -> 10
               IN  _maybe_add_count(
                       quarterly_rule \o "-" \o MONTH_ALIASES(mod_dict(rep_month % 3)),
                       Float(mdiffs(self)[1] \div 3, mdiffs(self)[1] % 3 = 0))
          ELSE IF monthly_rule # None
          THEN _maybe_add_count(monthly_rule, Whole(mdiffs(self)[1]))
          ELSE IF is_unique(self) THEN _get_daily_rule(self)
          ELSE IF _is_business_daily(self) THEN Return("B")
          ELSE IF wom_rule # None THEN Return(wom_rule)
          ELSE Return(None)

\* variant of get_freq that skips the monotonicity and uniqueness test
GetFreqUnchecked(self) ==
    IF ~IsZero(deltas(self)[1])
         /\ _is_multiple(deltas(self)[1], periods_per_day(self.creso))
    THEN _infer_daily_rule(self)
    ELSE Return(None)

get_freq(self) ==
    IF ~self.is_monotonic \/ ~_is_unique(self.index) THEN Return(None)
    ELSE
      LET reso  == self.creso
          delta == deltas(self)[1]
          ppd   == periods_per_day(reso)
          pph   == FloorDivPeriods(ppd, 24, reso)
          ppm   == FloorDivPeriods(pph, 60, reso)
          pps   == FloorDivPeriods(ppm, 60, reso)
          ppl   == FloorDivPeriods(pps, 1000, reso)
          ppu   == FloorDivPeriods(pps, 1000 * 1000, reso)
          draw  == deltas_asi8(self)[1]
      IN  IF ~IsZero(delta) /\ _is_multiple(delta, ppd) THEN _infer_daily_rule(self)
          ELSE IF hour_deltas(self) \in {<<Whole(1), Whole(17)>>,
                                         <<Whole(1), Whole(65)>>,
                                         <<Whole(1), Whole(17), Whole(65)>>}
          THEN Return("BH")
          ELSE IF ~is_unique_asi8(self) THEN Return(None)
          ELSE IF _is_multiple(draw, pph) THEN _maybe_add_count("H", TrueDiv(draw, pph, reso))
          ELSE IF _is_multiple(draw, ppm) THEN _maybe_add_count("T", TrueDiv(draw, ppm, reso))
          ELSE IF _is_multiple(draw, pps) THEN _maybe_add_count("S", TrueDiv(draw, pps, reso))
          ELSE IF _is_multiple(draw, ppl) THEN _maybe_add_count("L", TrueDiv(draw, ppl, reso))
          ELSE IF _is_multiple(draw, ppu) THEN _maybe_add_count("U", TrueDiv(draw, ppu, reso))
          ELSE _maybe_add_count("N", TrueDiv(draw, Periods(0, 1), reso))

\* variant of infer_freq in which a short input yields None
InferFreqShortNone(cont, dt, idx, zone, reso) ==
    IF cont = "Series" /\ dt \notin {"M8", "m8", "O"} THEN Raise("TypeError")
    ELSE IF dt = "period" THEN Raise("TypeError")
    ELSE IF dt = "m8"
    THEN IF Len(idx) < 3 THEN Return(None)
         ELSE get_freq(FrequencyInferer(idx, "naive", reso, TRUE))
    ELSE IF cont = "Index" /\ dt \in {"i", "u", "f", "c", "b"} THEN Raise("TypeError")
    ELSE IF Len(idx) < 3 THEN Return(None)
    ELSE get_freq(FrequencyInferer(idx, zone, reso, FALSE))

\* variant of infer_freq that tests the length before the dtype
InferFreqLengthFirst(cont, dt, idx, zone, reso) ==
    IF Len(idx) < 3 THEN Raise("ValueError")
    ELSE IF cont = "Series" /\ dt \notin {"M8", "m8", "O"} THEN Raise("TypeError")
    ELSE IF dt = "period" THEN Raise("TypeError")
    ELSE IF dt = "m8" THEN get_freq(FrequencyInferer(idx, "naive", reso, TRUE))
    ELSE IF cont = "Index" /\ dt \in {"i", "u", "f", "c", "b"} THEN Raise("TypeError")
    ELSE get_freq(FrequencyInferer(idx, zone, reso, FALSE))

\* infer_freq(index) for an Index or a Series of the given dtype
infer_freq(cont, dt, idx, zone, reso) ==
    IF cont = "Series" /\ dt \notin {"M8", "m8", "O"} THEN Raise("TypeError")
    ELSE IF dt = "period" THEN Raise("TypeError")
    ELSE IF dt = "m8"
    THEN IF Len(idx) < 3 THEN Raise("ValueError")
         ELSE get_freq(FrequencyInferer(idx, "naive", reso, TRUE))
    ELSE IF cont = "Index" /\ dt \in {"i", "u", "f", "c", "b"} THEN Raise("TypeError")
    ELSE IF Len(idx) < 3 THEN Raise("ValueError")
    ELSE get_freq(FrequencyInferer(idx, zone, reso, FALSE))

-----------------------------------------------------------------------------
(* Inputs of infer_freq explored by the model *)

\* the int64 value secs * UnitsPerSecond(reso) + units, in mixed radix
Value(secs, units, reso) ==
    LET U == UnitsPerSecond(reso)
        t == secs + units \div U
    IN  Stamp(t \div SecondsPerDay, t % SecondsPerDay, units % U)

Days(k) == Stamp(k, 0, 0)

Hours(h) == Value(h * 3600, 0, "s")

At(y, m, d, h) == Stamp(DayOfDate(y, m, d), h * 3600, 0)

Families ==
    {"daily", "monthly", "quarterly", "annual", "intraday", "subsecond",
     "resolution", "zone", "timedelta", "dtypes"}

\* first element of the index
Starts(fam) ==
    CASE fam = "daily"      -> {At(2020, 1, 6, 0), At(2020, 1, 9, 0), At(2020, 1, 10, 9),
                                At(2020, 1, 30, 0)}
      [] fam = "monthly"    -> {At(2019, 12, 31, 0), At(2020, 1, 1, 0), At(2020, 1, 31, 0),
                                At(2021, 1, 29, 0), At(2020, 1, 17, 0)}
      [] fam = "quarterly"  -> {At(2019, 12, 31, 0), At(2020, 1, 1, 0), At(2020, 2, 3, 0),
                                At(2020, 11, 30, 0)}
      [] fam = "annual"     -> {At(2019, 12, 31, 0), At(2019, 3, 1, 0), At(2020, 2, 28, 0),
                                At(2017, 10, 2, 1)}
      [] fam = "intraday"   -> {At(2020, 1, 6, 9), At(2020, 1, 9, 16), At(2017, 10, 2, 1)}
      [] fam = "subsecond"  -> {At(2020, 1, 6, 9), Stamp(DayOfDate(2020, 1, 6), 0, 999999999)}
      [] fam = "resolution" -> {At(2020, 1, 6, 0), At(2020, 2, 29, 0)}
      [] fam = "zone"       -> {At(2021, 3, 26, 23), At(2021, 3, 27, 8)}
      [] fam = "timedelta"  -> {Days(0), Days(1), Hours(1)}
      [] fam = "dtypes"     -> {At(2020, 1, 6, 0)}

\* steps from one element of the index to the next
Steps(fam, reso) ==
    CASE fam = "daily"      -> {Days(1), Days(2), Days(3), Days(7), Days(14),
                                Days(-1), Days(-7), Days(0)}
      [] fam = "monthly"    -> {Days(28), Days(29), Days(30), Days(31), Days(32),
                                Days(35), Days(-31), Days(61), Hours(31 * 24 + 12)}
      [] fam = "quarterly"  -> {Days(90), Days(91), Days(92), Days(93), Days(-92),
                                Days(182)}
      [] fam = "annual"     -> {Days(365), Days(366), Days(730), Days(731), Days(-365),
                                Days(-1), Hours(-1)}
      [] fam = "intraday"   -> {Hours(1), Hours(17), Hours(65), Hours(2), Hours(24),
                                Hours(-1), Hours(-24), Value(1800, 0, reso),
                                Value(90, 0, reso), Value(43200, 0, reso)}
      [] fam = "subsecond"  -> {Value(0, 1, reso), Value(0, 3, reso), Value(0, 1000, reso),
                                Value(0, 1500, reso), Value(0, 2000000, reso),
                                Value(1, 0, reso), Value(0, -1, reso)}
      [] fam = "resolution" -> {Days(1), Days(7), Days(-1), Hours(1), Value(1, 0, reso),
                                Value(0, 1, reso)}
      [] fam = "zone"       -> {Days(1), Hours(23), Hours(1), Hours(25)}
      [] fam = "timedelta"  -> {Days(1), Days(3), Days(7), Hours(1), Hours(17),
                                Days(-1), Days(0)}
      [] fam = "dtypes"     -> {Days(1)}

Containers(fam) == IF fam = "dtypes" THEN {"Index", "Series"} ELSE {"Index"}

Dtypes(fam) ==
    CASE fam = "dtypes" -> {"M8", "m8", "period", "i", "u", "f", "c", "b"}
      [] fam = "timedelta" -> {"m8"}
      [] OTHER -> {"M8"}

Resolutions(fam) == IF fam = "resolution" THEN {"s", "ms", "us", "ns"} ELSE {"ns"}

Zones(fam) == IF fam = "zone" THEN {"DST"} ELSE {"naive"}

-----------------------------------------------------------------------------
(* Specification of the inference calls *)

\* no answer yet: an answer is kept as a one-element sequence
NoCmp == [sub |-> <<>>, super |-> <<>>]

IdleCmp == source = "" /\ target = "" /\ cmp = NoCmp

NoOffset == [variant |-> "none"]

IdleOffset == offset = NoOffset /\ ts = Days(0) /\ out = Pending

NoCall == [fn |-> "none"]

IdleCall == call = NoCall /\ ret = Pending

InitInfer ==
    /\ family \in Families
    /\ container \in Containers(family)
    /\ dtype \in Dtypes(family)
    /\ creso \in Resolutions(family)
    /\ tz \in Zones(family)
    /\ \E start \in Starts(family) : index = <<start>>
    /\ result = Pending
    /\ IdleCmp
    /\ IdleOffset
    /\ IdleCall

\* the caller builds a longer index
ExtendIndex ==
    /\ result = Pending
    /\ Len(index) < MaxLen
    /\ \E step \in Steps(family, creso) :
           index' = Append(index, Plus(index[Len(index)], step, creso))
    /\ UNCHANGED <<family, container, dtype, creso, tz, result>>
    /\ UNCHANGED <<cmpVars, offsetVars, callVars>>

\* the caller calls infer_freq(index)
CallInferFreq ==
    /\ result = Pending
    /\ result' = infer_freq(container, dtype, index, tz, creso)
    /\ UNCHANGED <<family, container, dtype, creso, tz, index>>
    /\ UNCHANGED <<cmpVars, offsetVars, callVars>>

NextInfer == ExtendIndex \/ CallInferFreq

SpecInfer == InitInfer /\ [][NextInfer]_vars

-----------------------------------------------------------------------------
(* Frequency comparison *)

UpperChar(c) ==
    CASE c = "a" -> "A"
      [] c = "b" -> "B"
      [] c = "c" -> "C"
      [] c = "d" -> "D"
      [] c = "e" -> "E"
      [] c = "f" -> "F"
      [] c = "g" -> "G"
      [] c = "h" -> "H"
      [] c = "i" -> "I"
      [] c = "j" -> "J"
      [] c = "k" -> "K"
      [] c = "l" -> "L"
      [] c = "m" -> "M"
      [] c = "n" -> "N"
      [] c = "o" -> "O"
      [] c = "p" -> "P"
      [] c = "q" -> "Q"
      [] c = "r" -> "R"
      [] c = "s" -> "S"
      [] c = "t" -> "T"
      [] c = "u" -> "U"
      [] c = "v" -> "V"
      [] c = "w" -> "W"
      [] c = "x" -> "X"
      [] c = "y" -> "Y"
      [] c = "z" -> "Z"
      [] OTHER -> c

\* str.upper()
RECURSIVE Upper(_)
Upper(str) ==
    IF Len(str) = 0 THEN ""
    ELSE UpperChar(SubSeq(str, 1, 1)) \o Upper(SubSeq(str, 2, Len(str)))

\* str.startswith(prefix)
StartsWith(str, prefix) ==
    Len(str) >= Len(prefix) /\ SubSeq(str, 1, Len(prefix)) = prefix

_maybe_coerce_freq(code) == Upper(code)

MONTHS ==
    <<"JAN", "FEB", "MAR", "APR", "MAY", "JUN",
      "JUL", "AUG", "SEP", "OCT", "NOV", "DEC">>

\* position of the month name in MONTHS, counted from 0
MONTH_NUMBERS(name) == (CHOOSE i \in DOMAIN MONTHS : MONTHS[i] = name) - 1

\* the month after the dash of the rule, DEC when the rule has no dash
get_rule_month(rule) ==
    IF \E i \in 1..Len(rule) : SubSeq(rule, i, i) = "-"
    THEN LET i == CHOOSE j \in 1..Len(rule) :
                      /\ SubSeq(rule, j, j) = "-"
                      /\ \A k \in 1..(j - 1) : SubSeq(rule, k, k) # "-"
         IN  SubSeq(rule, i + 1, Len(rule))
    ELSE "DEC"

\* variant of _quarter_months_conform that asks for the same month
QuarterMonthsEqual(src, tgt) == MONTH_NUMBERS(src) = MONTH_NUMBERS(tgt)

_quarter_months_conform(src, tgt) ==
    LET snum == MONTH_NUMBERS(src)
        tnum == MONTH_NUMBERS(tgt)
    IN  snum % 3 = tnum % 3

_is_annual(rule) == Upper(rule) = "A" \/ StartsWith(Upper(rule), "A-")

_is_quarterly(rule) ==
    \/ Upper(rule) = "Q"
    \/ StartsWith(Upper(rule), "Q-")
    \/ StartsWith(Upper(rule), "BQ")

_is_monthly(rule) == Upper(rule) \in {"M", "BM"}

_is_weekly(rule) == Upper(rule) = "W" \/ StartsWith(Upper(rule), "W-")

is_subperiod(src0, tgt0) ==
    IF tgt0 = None \/ src0 = None THEN FALSE
    ELSE
      LET src == _maybe_coerce_freq(src0)
          tgt == _maybe_coerce_freq(tgt0)
      IN  IF _is_annual(tgt)
          THEN IF _is_quarterly(src)
               THEN _quarter_months_conform(get_rule_month(src), get_rule_month(tgt))
               ELSE src \in {"D", "C", "B", "M", "H", "T", "S", "L", "U", "N"}
          ELSE IF _is_quarterly(tgt)
          THEN src \in {"D", "C", "B", "M", "H", "T", "S", "L", "U", "N"}
          ELSE IF _is_monthly(tgt)
          THEN src \in {"D", "C", "B", "H", "T", "S", "L", "U", "N"}
          ELSE IF _is_weekly(tgt)
          THEN src \in {tgt, "D", "C", "B", "H", "T", "S", "L", "U", "N"}
          ELSE IF tgt = "B" THEN src \in {"B", "H", "T", "S", "L", "U", "N"}
          ELSE IF tgt = "C" THEN src \in {"C", "H", "T", "S", "L", "U", "N"}
          ELSE IF tgt = "D" THEN src \in {"D", "H", "T", "S", "L", "U", "N"}
          ELSE IF tgt = "H" THEN src \in {"H", "T", "S", "L", "U", "N"}
          ELSE IF tgt = "T" THEN src \in {"T", "S", "L", "U", "N"}
          ELSE IF tgt = "S" THEN src \in {"S", "L", "U", "N"}
          ELSE IF tgt = "L" THEN src \in {"L", "U", "N"}
          ELSE IF tgt = "U" THEN src \in {"U", "N"}
          ELSE IF tgt = "N" THEN src \in {"N"}
          ELSE FALSE

is_superperiod(src0, tgt0) ==
    IF tgt0 = None \/ src0 = None THEN FALSE
    ELSE
      LET src == _maybe_coerce_freq(src0)
          tgt == _maybe_coerce_freq(tgt0)
      IN  IF _is_annual(src)
          THEN IF _is_annual(tgt) THEN get_rule_month(src) = get_rule_month(tgt)
               ELSE IF _is_quarterly(tgt)
               THEN _quarter_months_conform(get_rule_month(src), get_rule_month(tgt))
               ELSE tgt \in {"D", "C", "B", "M", "H", "T", "S", "L", "U", "N"}
          ELSE IF _is_quarterly(src)
          THEN tgt \in {"D", "C", "B", "M", "H", "T", "S", "L", "U", "N"}
          ELSE IF _is_monthly(src)
          THEN tgt \in {"D", "C", "B", "H", "T", "S", "L", "U", "N"}
          ELSE IF _is_weekly(src)
          THEN tgt \in {src, "D", "C", "B", "H", "T", "S", "L", "U", "N"}
          ELSE IF src = "B" THEN tgt \in {"D", "C", "B", "H", "T", "S", "L", "U", "N"}
          ELSE IF src = "C" THEN tgt \in {"D", "C", "B", "H", "T", "S", "L", "U", "N"}
          ELSE IF src = "D" THEN tgt \in {"D", "C", "B", "H", "T", "S", "L", "U", "N"}
          ELSE IF src = "H" THEN tgt \in {"H", "T", "S", "L", "U", "N"}
          ELSE IF src = "T" THEN tgt \in {"T", "S", "L", "U", "N"}
          ELSE IF src = "S" THEN tgt \in {"S", "L", "U", "N"}
          ELSE IF src = "L" THEN tgt \in {"L", "U", "N"}
          ELSE IF src = "U" THEN tgt \in {"U", "N"}
          ELSE IF src = "N" THEN tgt \in {"N"}
          ELSE FALSE

-----------------------------------------------------------------------------
(* Specification of the comparison calls *)

\* the aliases handed to the comparison
PeriodAliases ==
    {"A", "Q", "M", "BM", "W", "B", "C", "D", "H", "T", "S", "L", "U", "N"}
    \cup {"A-" \o MONTHS[i] : i \in DOMAIN MONTHS}
    \cup {"Q-" \o MONTHS[i] : i \in DOMAIN MONTHS}
    \cup {"W-" \o d : d \in {"MON", "TUE", "WED", "THU", "FRI", "SAT", "SUN"}}

ComparisonInputs == PeriodAliases \cup {None, "d", "q-mar", "w-sun"}

IdleInfer ==
    /\ family = "daily" /\ container = "Index" /\ dtype = "M8" /\ creso = "ns"
    /\ tz = "naive" /\ index = <<>> /\ result = Pending

InitCompare ==
    /\ source \in ComparisonInputs
    /\ target \in ComparisonInputs
    /\ cmp = NoCmp
    /\ IdleInfer
    /\ IdleOffset
    /\ IdleCall

\* the caller asks is_subperiod(source, target)
CallIsSubperiod ==
    /\ cmp.sub = <<>>
    /\ cmp' = [cmp EXCEPT !.sub = <<is_subperiod(source, target)>>]
    /\ UNCHANGED <<source, target, inferVars, offsetVars, callVars>>

\* the caller asks the dual question, is_superperiod(target, source)
CallIsSuperperiod ==
    /\ cmp.super = <<>>
    /\ cmp' = [cmp EXCEPT !.super = <<is_superperiod(target, source)>>]
    /\ UNCHANGED <<source, target, inferVars, offsetVars, callVars>>

NextCompare == CallIsSubperiod \/ CallIsSuperperiod

SpecCompare == InitCompare /\ [][NextCompare]_vars

-----------------------------------------------------------------------------
(* Properties of infer_freq *)

DayNames == {"MON", "TUE", "WED", "THU", "FRI", "SAT", "SUN"}

MonthNames ==
    {"JAN", "FEB", "MAR", "APR", "MAY", "JUN", "JUL", "AUG", "SEP", "OCT", "NOV", "DEC"}

\* the closed vocabulary of aliases, without count
BaseAliases ==
    {"D", "B", "BH", "H", "T", "S", "L", "U", "N", "M", "MS", "BM", "BMS"}
    \cup {"W-" \o d : d \in DayNames}
    \cup {"WOM-" \o ToString(k) \o d : k \in 1..4, d \in DayNames}
    \cup {p \o "-" \o m : p \in {"Q", "QS", "BQ", "BQS", "A", "AS", "BA", "BAS"},
                          m \in MonthNames}

Digits == {"0", "1", "2", "3", "4", "5", "6", "7", "8", "9"}

\* a decimal numeral without sign and without leading zero
IsNumeral(p) ==
    /\ Len(p) >= 1
    /\ \A i \in 1..Len(p) : SubSeq(p, i, i) \in Digits
    /\ SubSeq(p, 1, 1) # "0"

\* the numeral of an integer greater than 1
IsCountAboveOne(p) == IsNumeral(p) /\ p # "1"

\* the numeral of zero or of a negative integer
IsCountBelowOne(p) ==
    \/ p = "0"
    \/ Len(p) >= 2 /\ SubSeq(p, 1, 1) = "-" /\ IsNumeral(SubSeq(p, 2, Len(p)))

\* the strings a with a = p \o b for a base alias b: the set of such prefixes p
CountPrefixes(a) ==
    {SubSeq(a, 1, Len(a) - Len(b)) :
        b \in {c \in BaseAliases :
                  Len(c) <= Len(a) /\ SubSeq(a, Len(a) - Len(c) + 1, Len(a)) = c}}

StrictlyIncreasing(idx) == \A i \in 1..(Len(idx) - 1) : Less(idx[i], idx[i + 1])

StrictlyDecreasing(idx) == \A i \in 1..(Len(idx) - 1) : Less(idx[i + 1], idx[i])

Called == result # Pending

TemporalInput == dtype \in {"M8", "m8"}

\* C1 (as stated): for at least 3 timestamps, strictly increasing or strictly
\* decreasing, infer_freq returns None or an alias of the closed vocabulary whose
\* count prefix, when present, is an integer greater than 1.
C1_Original ==
    (Called /\ TemporalInput /\ Len(index) >= 3
        /\ (StrictlyIncreasing(index) \/ StrictlyDecreasing(index)))
    => /\ result.kind = "return"
       /\ \/ result.value = None
          \/ \E p \in CountPrefixes(result.value) : p = "" \/ IsCountAboveOne(p)

\* C1 (amended): for at least 3 timestamps, strictly increasing or strictly
\* decreasing, infer_freq returns None or an alias of the closed vocabulary whose
\* count prefix, when present, is an integer other than 1: greater than 1 when the
\* input is strictly increasing, zero or negative when it is strictly decreasing.
C1_Amended ==
    (Called /\ TemporalInput /\ Len(index) >= 3)
    => /\ StrictlyIncreasing(index) =>
            /\ result.kind = "return"
            /\ \/ result.value = None
               \/ \E p \in CountPrefixes(result.value) : p = "" \/ IsCountAboveOne(p)
       /\ StrictlyDecreasing(index) =>
            /\ result.kind = "return"
            /\ \/ result.value = None
               \/ \E p \in CountPrefixes(result.value) : p = "" \/ IsCountBelowOne(p)

\* a decreasing input has been given a negative count, an increasing one a count
C1_Witness ==
    \/ Called /\ Len(index) >= 3 /\ StrictlyDecreasing(index) /\ result = Return("-1D")
    \/ Called /\ Len(index) >= 3 /\ StrictlyIncreasing(index) /\ result = Return("2W-MON")

\* C2 (as stated): infer_freq of a datetime sequence of fewer than 3 elements
\* returns None and raises nothing.
C2_Original ==
    (Called /\ dtype = "M8" /\ Len(index) < 3) => result = Return(None)

\* C2 (amended): infer_freq of a datetime sequence of fewer than 3 elements
\* raises ValueError and returns nothing.
C2_Amended ==
    (Called /\ dtype = "M8" /\ Len(index) < 3) => result = Raise("ValueError")

C2_Witness ==
    Called /\ dtype = "M8" /\ container = "Index" /\ Len(index) = 2
        /\ result = Raise("ValueError")

\* C3: precondition violations are reported by exception: ValueError for a datetime
\* or timedelta input of fewer than 3 elements, TypeError for a period-typed input
\* or a numeric index, and TypeError when both violations apply.
C3_PreconditionErrors ==
    Called =>
       /\ (TemporalInput /\ Len(index) < 3) => result = Raise("ValueError")
       /\ (dtype = "period" \/ (container = "Index" /\ dtype \in {"i", "u", "f", "c", "b"}))
            => result = Raise("TypeError")

\* a period-typed input of fewer than 3 elements has raised TypeError
C3_Witness ==
    Called /\ dtype = "period" /\ Len(index) < 3 /\ result = Raise("TypeError")

NotMonotonic(idx) ==
    /\ \E i \in 1..(Len(idx) - 1) : Less(idx[i], idx[i + 1])
    /\ \E i \in 1..(Len(idx) - 1) : Less(idx[i + 1], idx[i])

HasRepeat(idx) == \E i, j \in DOMAIN idx : i < j /\ idx[i] = idx[j]

\* C4: a datetime input of at least 3 elements that is not monotonic or that
\* repeats a timestamp yields None, without raising.
C4_IrregularIsNone ==
    (Called /\ dtype = "M8" /\ Len(index) >= 3
        /\ (NotMonotonic(index) \/ HasRepeat(index)))
    => result = Return(None)

\* a non-monotonic input whose smallest delta is a whole number of days
C4_Witness ==
    /\ Called /\ dtype = "M8" /\ Len(index) >= 3
    /\ NotMonotonic(index) /\ ~HasRepeat(index)
    /\ \A i \in 1..(Len(index) - 1) : index[i + 1].s = index[i].s
    /\ result = Return(None)

\* the common spacing of idx in whole days, 0 when there is none
CommonDays(idx) ==
    LET k == idx[2].d - idx[1].d
    IN  IF \A i \in 1..(Len(idx) - 1) :
               /\ idx[i + 1].d - idx[i].d = k
               /\ idx[i + 1].s = idx[i].s
               /\ idx[i + 1].f = idx[i].f
        THEN k ELSE 0

NoMonthRule ==
    LET self == FrequencyInferer(index, tz, creso, FALSE)
    IN  /\ _get_annual_rule(self) = None
        /\ _get_quarterly_rule(self) = None
        /\ _get_monthly_rule(self) = None

DayName(z) == <<"MON", "TUE", "WED", "THU", "FRI", "SAT", "SUN">>[((z + 3) % 7) + 1]

C5_Case ==
    /\ Called /\ dtype = "M8" /\ creso = "ns" /\ tz = "naive"
    /\ Len(index) >= 3 /\ CommonDays(index) >= 1 /\ NoMonthRule

\* C5: a nanosecond, timezone-naive, strictly increasing input of at least 3
\* timestamps with common spacing of k whole days, to which no annual, quarterly or
\* monthly rule applies, yields D (k = 1), <k>D (7 does not divide k), W-<DAY>
\* (k = 7) or <k/7>W-<DAY> (7 divides k, k > 7), DAY the weekday of the first one.
C5_DailyWeekly ==
    C5_Case =>
       LET k   == CommonDays(index)
           day == DayName(index[1].d)
       IN  result = Return(IF k = 1 THEN "D"
                           ELSE IF k % 7 # 0 THEN ToString(k) \o "D"
                           ELSE IF k = 7 THEN "W-" \o day
                           ELSE ToString(k \div 7) \o "W-" \o day)

\* a fortnightly input has been classified
C5_Witness == C5_Case /\ CommonDays(index) = 14 /\ Len(index) >= 4

-----------------------------------------------------------------------------
(* Properties of the frequency comparison *)

\* C6: for all pairs (s, t) of aliases of the vocabulary, is_subperiod(s, t)
\* equals is_superperiod(t, s).
C6_Duality ==
    (source \in PeriodAliases /\ target \in PeriodAliases
        /\ cmp.sub # <<>> /\ cmp.super # <<>>)
    => cmp.sub = cmp.super

\* position of an alias in the chain from coarse (annual, 0) to fine (nanosecond)
PeriodClass(a) ==
    CASE a = "A" \/ StartsWith(a, "A-") -> 0
      [] a = "Q" \/ StartsWith(a, "Q-") -> 1
      [] a \in {"M", "BM"} -> 2
      [] a = "W" \/ StartsWith(a, "W-") -> 3
      [] a \in {"B", "C", "D"} -> 4
      [] a = "H" -> 5
      [] a = "T" -> 6
      [] a = "S" -> 7
      [] a = "L" -> 8
      [] a = "U" -> 9
      [] a = "N" -> 10

RuleMonthIndex(a) ==
    IF Len(a) = 5
    THEN CHOOSE i \in DOMAIN MONTHS : MONTHS[i] = SubSeq(a, 3, 5)
    ELSE 12

MonthsAligned(a, b) == RuleMonthIndex(a) % 3 = RuleMonthIndex(b) % 3

C7_Case ==
    source \in PeriodAliases /\ target \in PeriodAliases /\ cmp.sub # <<>>

\* C7 (as stated): is_subperiod(s, t) is true whenever the class of s is strictly
\* finer than the class of t (subject only to month alignment for a quarterly s with
\* an annual t), and false whenever the class of s is strictly coarser.
C7_Original ==
    C7_Case =>
       /\ PeriodClass(source) > PeriodClass(target) =>
            cmp.sub[1] = IF PeriodClass(source) = 1 /\ PeriodClass(target) = 0
                         THEN MonthsAligned(source, target) ELSE TRUE
       /\ PeriodClass(source) < PeriodClass(target) => cmp.sub[1] = FALSE

\* C7 (amended): is_subperiod(s, t) is true whenever the class of s is strictly
\* finer than the class of t and s is neither weekly nor BM (subject only to month
\* alignment for a quarterly s with an annual t); it is false for a weekly or BM s
\* with a coarser t, and false whenever the class of s is strictly coarser.
C7_Amended ==
    C7_Case =>
       /\ PeriodClass(source) > PeriodClass(target) =>
            cmp.sub[1] = IF PeriodClass(source) = 3 \/ source = "BM" THEN FALSE
                         ELSE IF PeriodClass(source) = 1 /\ PeriodClass(target) = 0
                         THEN MonthsAligned(source, target) ELSE TRUE
       /\ PeriodClass(source) < PeriodClass(target) => cmp.sub[1] = FALSE

\* a quarterly source aligned with an annual target of another month was accepted
C7_Witness ==
    C7_Case /\ source = "Q-MAR" /\ target = "A-JUN" /\ cmp.sub = <<TRUE>>


-----------------------------------------------------------------------------
(* Business offsets: BusinessDay, CustomBusinessDay, BusinessHour.          *)
(* Timestamps handed to an offset have nanosecond resolution.  Times of    *)
(* day (the start and end of business hours, the timedelta of a            *)
(* BusinessDay) are seconds.                                                *)

\* longest step of a BusinessDay or CustomBusinessDay under test
MaxN == 11

\* longest step of a BusinessHour under test
MaxHours == 2

\* days of the calendar window the timestamps are drawn from
WindowDays == 7

Clock(h, m) == h * 3600 + m * 60

AddDays(x, k) == Stamp(x.d + k, x.s, x.f)

AddSeconds(x, secs) ==
    Plus(x, Stamp(secs \div SecondsPerDay, secs % SecondsPerDay, 0), "ns")

BusinessDay(n, delta) ==
    [variant |-> "BusinessDay", n |-> n, normalize |-> FALSE, offset |-> delta]

CustomBusinessDay(n, weekmask, holidays) ==
    [variant |-> "CustomBusinessDay", n |-> n, normalize |-> FALSE,
     weekmask |-> weekmask, holidays |-> holidays]

\* the opening times are kept sorted, each with its closing time
BusinessHour(n, start, end) ==
    LET idx   == 1 .. Len(start)
        order == CHOOSE p \in [idx -> idx] :
                     \A i, j \in idx : i < j => start[p[i]] < start[p[j]]
    IN  [variant |-> "BusinessHour", n |-> n, normalize |-> FALSE,
         start |-> [i \in idx |-> start[order[i]]],
         end |-> [i \in idx |-> end[order[i]]]]

\* -offset
Neg(self) == [self EXCEPT !.n = -self.n]

\* type(self)(n, **self.kwds)
WithN(self, n) == [self EXCEPT !.n = n]

\* variant of k * offset that keeps the direction of the offset
MulKeepsDirection(k, self) == WithN(self, (IF k < 0 THEN -k ELSE k) * self.n)

\* k * offset
Mul(k, self) == WithN(self, k * self.n)

(* BusinessDay *)

BusinessDay_onOffset(self, dt) == Weekday(dt.d) < 5

\* variant of BusinessDay.apply that counts calendar days
ApplyCalendarDays(self, other) ==
    AddSeconds(AddDays(other, self.n), self.offset)

\* variant of BusinessDay.apply that rounds the weeks toward zero
ApplyTruncatedWeeks(self, other) ==
    LET wday  == Weekday(other.d)
        weeks == IF self.n >= 0 THEN self.n \div 5 ELSE -((-self.n) \div 5)
        n1    == IF self.n <= 0 /\ wday > 4 THEN self.n + 1 ELSE self.n
        n     == n1 - 5 * weeks
        days  == IF n = 0 /\ wday > 4 THEN 4 - wday
                 ELSE IF wday > 4 THEN (7 - wday) + (n - 1)
                 ELSE IF wday + n <= 4 THEN n
                 ELSE n + 2
    IN  AddSeconds(AddDays(other, 7 * weeks + days), self.offset)

\* whole weeks first, then the days left, then the weekend to get past
BusinessDay_apply(self, other) ==
    LET wday  == Weekday(other.d)
        weeks == self.n \div 5
        n1    == IF self.n <= 0 /\ wday > 4 THEN self.n + 1 ELSE self.n
        n     == n1 - 5 * weeks
        days  == IF n = 0 /\ wday > 4 THEN 4 - wday
                 ELSE IF wday > 4 THEN (7 - wday) + (n - 1)
                 ELSE IF wday + n <= 4 THEN n
                 ELSE n + 2
    IN  AddSeconds(AddDays(other, 7 * weeks + days), self.offset)

(* CustomBusinessDay *)

\* variant of is_busday that knows no holidays
IsBusdayWithoutHolidays(self, d) == Weekday(d) \in self.weekmask

is_busday(self, d) == Weekday(d) \in self.weekmask /\ d \notin self.holidays

\* the first valid day at or after d (dir = 1), at or before d (dir = -1)
RECURSIVE RollDay(_, _, _)
RollDay(self, d, dir) ==
    IF is_busday(self, d) THEN d ELSE RollDay(self, d + dir, dir)

\* the valid days met from the day d, nearest first, d itself left out
ValidDays(self, d, dir, count) ==
    LET perWeek == Cardinality(self.weekmask)
        horizon == 7 * ((count + Cardinality(self.holidays)) \div perWeek + 2)
        Valid(x) == is_busday(self, x)
    IN  SelectSeq([i \in 1 .. horizon |-> d + dir * i], Valid)

\* n valid days from the valid day d
busday_offset(self, d, n) ==
    IF n = 0 THEN d
    ELSE IF n > 0 THEN ValidDays(self, d, 1, n)[n]
    ELSE ValidDays(self, d, -1, -n)[-n]

CustomBusinessDay_onOffset(self, dt) == is_busday(self, dt.d)

CustomBusinessDay_apply(self, other) ==
    LET roll == IF self.n <= 0 THEN 1 ELSE -1
    IN  Stamp(busday_offset(self, RollDay(self, other.d, roll), self.n),
              other.s, other.f)

(* BusinessHour *)

\* other.time() <= st and other.time() >= st
TimeAtOrBefore(other, st) == other.s < st \/ (other.s = st /\ other.f = 0)
TimeAtOrAfter(other, st) == other.s >= st

_get_business_hours_by_sec(start, end) ==
    IF start < end THEN end - start ELSE end + SecondsPerDay - start

next_bday(self) == BusinessDay(IF self.n >= 0 THEN 1 ELSE -1, 0)

\* variant of _next_opening_time that goes the way of sign, whatever n
NextOpeningWhateverSign(self, other, sign) ==
    LET k        == Len(self.start)
        earliest == self.start[1]
        latest   == self.start[k]
        forward  == sign > 0
        step     == WithN(next_bday(self), IF forward THEN 1 ELSE -1)
        moved    == BusinessDay_apply(step, other).d
        today    == BusinessDay_onOffset(next_bday(self), other)
    IN  IF forward
        THEN IF today /\ TimeAtOrBefore(other, latest)
             THEN LET i == CHOOSE i \in 1 .. k :
                               /\ TimeAtOrBefore(other, self.start[i])
                               /\ \A j \in 1 .. (i - 1) :
                                      ~TimeAtOrBefore(other, self.start[j])
                  IN  Stamp(other.d, self.start[i], 0)
             ELSE Stamp(moved, earliest, 0)
        ELSE IF today /\ TimeAtOrAfter(other, earliest)
             THEN LET i == CHOOSE i \in 1 .. k :
                               /\ TimeAtOrAfter(other, self.start[i])
                               /\ \A j \in (i + 1) .. k :
                                      ~TimeAtOrAfter(other, self.start[j])
                  IN  Stamp(other.d, self.start[i], 0)
             ELSE Stamp(moved, latest, 0)

\* the opening time met first from `other`, going the way of sign * n
_next_opening_time(self, other, sign) ==
    LET k        == Len(self.start)
        earliest == self.start[1]
        latest   == self.start[k]
        forward  == (self.n >= 0) = (sign > 0)
        step     == WithN(next_bday(self), IF forward THEN 1 ELSE -1)
        moved    == BusinessDay_apply(step, other).d
        today    == BusinessDay_onOffset(next_bday(self), other)
    IN  IF forward
        THEN IF today /\ TimeAtOrBefore(other, latest)
             THEN LET i == CHOOSE i \in 1 .. k :
                               /\ TimeAtOrBefore(other, self.start[i])
                               /\ \A j \in 1 .. (i - 1) :
                                      ~TimeAtOrBefore(other, self.start[j])
                  IN  Stamp(other.d, self.start[i], 0)
             ELSE Stamp(moved, earliest, 0)
        ELSE IF today /\ TimeAtOrAfter(other, earliest)
             THEN LET i == CHOOSE i \in 1 .. k :
                               /\ TimeAtOrAfter(other, self.start[i])
                               /\ \A j \in (i + 1) .. k :
                                      ~TimeAtOrAfter(other, self.start[j])
                  IN  Stamp(other.d, self.start[i], 0)
             ELSE Stamp(moved, latest, 0)

_prev_opening_time(self, other) == _next_opening_time(self, other, -1)

\* length in seconds of the business hours that open at the time of day of dt
OpenSeconds(self, dt) ==
    LET i == CHOOSE i \in 1 .. Len(self.start) : self.start[i] = dt.s
    IN  _get_business_hours_by_sec(self.start[i], self.end[i])

_get_closing_time(self, dt) == AddSeconds(dt, OpenSeconds(self, dt))

\* the opening time at or before dt
LastOpening(self, dt) ==
    IF self.n >= 0 THEN _prev_opening_time(self, dt)
    ELSE _next_opening_time(self, dt, 1)

\* the opening time at or after dt
ComingOpening(self, dt) ==
    IF self.n >= 0 THEN _next_opening_time(self, dt, 1)
    ELSE _prev_opening_time(self, dt)

\* variant of BusinessHour.onOffset that leaves the closing time out
OnOffsetBeforeClosing(self, dt) ==
    LET op   == LastOpening(self, dt)
        span == Minus(dt, op, "ns")
    IN  TotalSeconds(span) < OpenSeconds(self, op)

BusinessHour_onOffset(self, dt) ==
    LET op   == LastOpening(self, dt)
        span == Minus(dt, op, "ns")
        secs == TotalSeconds(span)
        businesshours == OpenSeconds(self, op)
    IN  secs < businesshours \/ (secs = businesshours /\ span.f = 0)

\* variant of BusinessHour.rollback that stops at the opening time
RollbackToOpening(self, dt) ==
    IF ~BusinessHour_onOffset(self, dt) THEN LastOpening(self, dt) ELSE dt

BusinessHour_rollback(self, dt) ==
    IF ~BusinessHour_onOffset(self, dt)
    THEN _get_closing_time(self, LastOpening(self, dt))
    ELSE dt

BusinessHour_rollforward(self, dt) ==
    IF ~BusinessHour_onOffset(self, dt) THEN ComingOpening(self, dt) ELSE dt

\* a span of whole seconds
Timedelta(secs) == Stamp(secs \div SecondsPerDay, secs % SecondsPerDay, 0)

\* n >= 0: the business hours left to add are spent span after span
RECURSIVE AdvanceHours(_, _, _)
AdvanceHours(self, other, bhour_remain) ==
    IF IsZero(bhour_remain) THEN other
    ELSE LET closing == _get_closing_time(self, _prev_opening_time(self, other))
             bhour   == Minus(closing, other, "ns")
         IN  IF Less(bhour_remain, bhour)
             THEN Plus(other, bhour_remain, "ns")
             ELSE AdvanceHours(self, _next_opening_time(self, closing, 1),
                               Minus(bhour_remain, bhour, "ns"))

\* n < 0: bhour_remain and bhour are negative
RECURSIVE RetreatHours(_, _, _)
RetreatHours(self, other, bhour_remain) ==
    IF IsZero(bhour_remain) THEN other
    ELSE LET opening == _next_opening_time(self, other, 1)
             bhour   == Minus(opening, other, "ns")
         IN  IF Less(bhour, bhour_remain)
             THEN Plus(other, bhour_remain, "ns")
             ELSE RetreatHours(
                      self,
                      _get_closing_time(
                          self,
                          _next_opening_time(
                              self, Plus(opening, Timedelta(-1), "ns"), 1)),
                      Minus(bhour_remain, bhour, "ns"))

\* variant of BusinessHour.apply that adds n hours of the clock
ApplyClockHours(self, ts0) == AddSeconds(ts0, self.n * 3600)

BusinessHour_apply(self, ts0) ==
    LET n          == self.n
        \* jump to the opening time, or to the closing time when n < 0
        atEnd      == ts0.f = 0
                      /\ \E i \in 1 .. Len(self.end) : self.end[i] = ts0.s
        atStart    == ts0.f = 0
                      /\ \E i \in 1 .. Len(self.start) : self.start[i] = ts0.s
        adjusted   ==
            IF n >= 0
            THEN IF atEnd \/ ~BusinessHour_onOffset(self, ts0)
                 THEN _next_opening_time(self, ts0, 1)
                 ELSE ts0
            ELSE LET moved == IF atStart THEN Plus(ts0, Timedelta(-1), "ns")
                              ELSE ts0
                 IN  IF ~BusinessHour_onOffset(self, moved)
                     THEN _get_closing_time(self, _next_opening_time(self, moved, 1))
                     ELSE moved
        \* the business hours to consume
        bhour_remain == Timedelta(n * 3600)
    IN  IF n >= 0 THEN AdvanceHours(self, adjusted, bhour_remain)
        ELSE RetreatHours(self, adjusted, bhour_remain)

(* DateOffset: the calls of the contract *)

onOffset(self, dt) ==
    CASE self.variant = "BusinessDay" -> BusinessDay_onOffset(self, dt)
      [] self.variant = "CustomBusinessDay" -> CustomBusinessDay_onOffset(self, dt)
      [] self.variant = "BusinessHour" -> BusinessHour_onOffset(self, dt)

apply(self, other) ==
    CASE self.variant = "BusinessDay" -> BusinessDay_apply(self, other)
      [] self.variant = "CustomBusinessDay" -> CustomBusinessDay_apply(self, other)
      [] self.variant = "BusinessHour" -> BusinessHour_apply(self, other)

rollback(self, dt) ==
    IF self.variant = "BusinessHour" THEN BusinessHour_rollback(self, dt)
    ELSE IF ~onOffset(self, dt) THEN apply(WithN(self, -1), dt)
    ELSE dt

rollforward(self, dt) ==
    IF self.variant = "BusinessHour" THEN BusinessHour_rollforward(self, dt)
    ELSE IF ~onOffset(self, dt) THEN apply(WithN(self, 1), dt)
    ELSE dt

\* timestamp - offset
Sub(other, self) == apply(Neg(self), other)

-----------------------------------------------------------------------------
(* Specification of the offset calls *)

\* Monday 2014-06-30, the first day of the calendar window
FirstDay == DayOfDate(2014, 6, 30)

\* times of day on the half hour
HalfHours == {k * 1800 : k \in 0 .. 47}

Holidays == {DayOfDate(2014, 6, 27), DayOfDate(2014, 7, 2), DayOfDate(2014, 7, 7)}

Weekmasks == {0 .. 4, {6, 0, 1, 2, 3}}

BusinessHours ==
    { <<(<<Clock(9, 0)>>), (<<Clock(17, 0)>>)>>,
      <<(<<Clock(11, 0)>>), (<<Clock(14, 30)>>)>>,
      <<(<<Clock(19, 0)>>), (<<Clock(5, 0)>>)>>,
      <<(<<Clock(21, 30)>>), (<<Clock(6, 30)>>)>>,
      <<(<<Clock(9, 0), Clock(13, 0)>>), (<<Clock(12, 0), Clock(17, 0)>>)>>,
      <<(<<Clock(9, 0), Clock(22, 0)>>), (<<Clock(13, 0), Clock(3, 0)>>)>>,
      <<(<<Clock(23, 0), Clock(13, 0)>>), (<<Clock(2, 0), Clock(17, 0)>>)>> }

Offsets ==
    {BusinessDay(n, delta) : n \in -MaxN .. MaxN, delta \in {0, Clock(2, 0)}}
    \cup {CustomBusinessDay(n, wm, hol) :
              n \in -MaxN .. MaxN, wm \in Weekmasks, hol \in {{}, Holidays}}
    \cup {BusinessHour(n, h[1], h[2]) :
              n \in -MaxHours .. MaxHours, h \in BusinessHours}

\* the times of day at which the business hours open or close
Boundaries(self) ==
    {self.start[i] : i \in 1 .. Len(self.start)}
    \cup {self.end[i] : i \in 1 .. Len(self.start)}

\* business hours are probed on the hour, where they open and close, one
\* minute before and after, one nanosecond before and after
Timestamps(self) ==
    {Stamp(FirstDay + d, s, f) :
        d \in 0 .. (WindowDays - 1),
        s \in IF self.variant = "BusinessHour"
              THEN {Clock(h, 0) : h \in 0 .. 23}
                   \cup {(b + k) % SecondsPerDay :
                             b \in Boundaries(self), k \in {-60, 0, 60}}
              ELSE {Clock(0, 0), Clock(10, 0), Clock(23, 30)},
        f \in {0, 1}}
    \cup {Stamp(FirstDay + d, (b - 1) % SecondsPerDay, UnitsPerSecond("ns") - 1) :
              d \in IF self.variant = "BusinessHour"
                    THEN 0 .. (WindowDays - 1) ELSE {},
              b \in IF self.variant = "BusinessHour"
                    THEN Boundaries(self) ELSE {}}

\* the integers an offset is multiplied by
Factors == {-5, -3, 0, 2}

Outcome(op, arg, v) == [kind |-> op, arg |-> arg, value |-> v]

InitOffset ==
    /\ offset \in Offsets
    /\ ts \in Timestamps(offset)
    /\ out = Pending
    /\ IdleInfer
    /\ IdleCmp
    /\ IdleCall

\* offset.onOffset(ts)
CallOnOffset ==
    /\ out.kind = "pending"
    /\ out' = Outcome("onOffset", ts, onOffset(offset, ts))
    /\ UNCHANGED <<offset, ts, inferVars, cmpVars, callVars>>

\* offset.rollback(ts)
CallRollback ==
    /\ out.kind = "pending"
    /\ out' = Outcome("rollback", ts, rollback(offset, ts))
    /\ UNCHANGED <<offset, ts, inferVars, cmpVars, callVars>>

\* offset.rollforward(ts)
CallRollforward ==
    /\ out.kind = "pending"
    /\ out' = Outcome("rollforward", ts, rollforward(offset, ts))
    /\ UNCHANGED <<offset, ts, inferVars, cmpVars, callVars>>

\* ts + offset
CallApply ==
    /\ out.kind = "pending"
    /\ out' = Outcome("apply", ts, apply(offset, ts))
    /\ UNCHANGED <<offset, ts, inferVars, cmpVars, callVars>>

\* (ts + offset) - offset
CallSub ==
    /\ out.kind = "apply"
    /\ out' = Outcome("sub", out.value, Sub(out.value, offset))
    /\ UNCHANGED <<offset, ts, inferVars, cmpVars, callVars>>

\* ts - offset
CallRsub ==
    /\ out.kind = "pending"
    /\ out' = Outcome("rsub", ts, Sub(ts, offset))
    /\ UNCHANGED <<offset, ts, inferVars, cmpVars, callVars>>

\* ts + k * offset
CallAddMultiple ==
    /\ out.kind = "pending"
    /\ \E k \in Factors : out' = Outcome("addmul", k, apply(Mul(k, offset), ts))
    /\ UNCHANGED <<offset, ts, inferVars, cmpVars, callVars>>

NextOffset ==
    \/ CallOnOffset \/ CallRollback \/ CallRollforward
    \/ CallApply \/ CallSub \/ CallRsub \/ CallAddMultiple

SpecOffset == InitOffset /\ [][NextOffset]_vars

-----------------------------------------------------------------------------
(* Properties of the offset calls *)

\* an offset built from its size alone: BusinessDay(n), without a timedelta
SizeOnly == offset.variant = "BusinessDay" => offset.offset = 0

\* x is a time at which business hours open
IsOpening(self, x) ==
    /\ x.f = 0
    /\ Weekday(x.d) < 5
    /\ \E i \in 1 .. Len(self.start) : self.start[i] = x.s

\* x is a time at which business hours that opened on a business day close
IsClosing(self, x) ==
    \E i \in 1 .. Len(self.start) :
        LET len  == IF self.start[i] < self.end[i]
                    THEN self.end[i] - self.start[i]
                    ELSE self.end[i] + SecondsPerDay - self.start[i]
            open == Minus(x, Stamp(0, len, 0), "ns")
        IN  open.f = 0 /\ open.s = self.start[i] /\ Weekday(open.d) < 5

\* nothing on-offset lies between the timestamp and the point it was rolled
\* to: no timestamp of the half-hour grid for business hours, no day for
\* business days
NothingCloser(self, a, b) ==
    IF self.variant = "BusinessHour"
    THEN \A d \in a.d .. b.d, s \in HalfHours, f \in {0, 1} :
             LET g == Stamp(d, s, f)
             IN  Less(a, g) /\ Less(g, b) => ~onOffset(self, g)
    ELSE /\ a.s = b.s /\ a.f = b.f
         /\ \A d \in (a.d + 1) .. (b.d - 1) : Weekday(d) > 4

C8_Case ==
    /\ out.kind \in {"rollback", "rollforward"}
    /\ offset.variant \in {"BusinessDay", "BusinessHour"}
    /\ offset.normalize = FALSE
    /\ SizeOnly

RECURSIVE KthWeekday(_, _, _)
KthWeekday(d, k, dir) ==
    IF k = 0 THEN d
    ELSE IF Weekday(d + dir) < 5 THEN KthWeekday(d + dir, k - 1, dir)
    ELSE KthWeekday(d + dir, k, dir)

C9_Case ==
    out.kind = "apply" /\ offset.variant = "BusinessDay" /\ SizeOnly

\* C9: BusinessDay(n).apply(ts), for ts on a weekday or a weekend: n > 0
\* gives the n-th Monday-to-Friday day strictly after the date of ts, n < 0
\* the |n|-th strictly before it, n = 0 gives ts on a weekday and the
\* following Monday otherwise; the time of day is kept and the result is a
\* Monday-to-Friday day.
C9_NthBusinessDay ==
    C9_Case =>
        /\ out.value.s = ts.s /\ out.value.f = ts.f
        /\ Weekday(out.value.d) < 5
        /\ offset.n > 0 => out.value.d = KthWeekday(ts.d, offset.n, 1)
        /\ offset.n < 0 => out.value.d = KthWeekday(ts.d, -offset.n, -1)
        /\ offset.n = 0 =>
               out.value.d = IF Weekday(ts.d) < 5 THEN ts.d
                             ELSE ts.d + (7 - Weekday(ts.d))

\* more than a week back from a Sunday, late in the evening
C9_Witness ==
    /\ C9_Case
    /\ offset.n < -5
    /\ Weekday(ts.d) = 6 /\ ts.s = Clock(23, 30) /\ ts.f = 1
    /\ out.value.d < ts.d - 7

C10_Case ==
    /\ out.kind = "sub"
    /\ offset.variant \in {"BusinessDay", "CustomBusinessDay"}
    /\ SizeOnly
    /\ onOffset(offset, ts)
    /\ offset.n >= 1

\* C10: BusinessDay and CustomBusinessDay: for ts on-offset and n >= 1,
\* (ts + Offset(n)) - Offset(n) = ts.
C10_RoundTrip == C10_Case => out.value = ts

\* the steps forward and back each cross a weekend and a holiday
C10_Witness ==
    /\ C10_Case
    /\ offset.variant = "CustomBusinessDay" /\ offset.n >= 3
    /\ \E h \in offset.holidays : ts.d < h /\ h < out.arg.d
    /\ \E d \in ts.d .. out.arg.d : Weekday(d) \notin offset.weekmask

\* the offset of the same class and parameters built with the size n
OfSize(self, n) ==
    CASE self.variant = "BusinessDay" -> BusinessDay(n, self.offset)
      [] self.variant = "CustomBusinessDay" ->
             CustomBusinessDay(n, self.weekmask, self.holidays)
      [] self.variant = "BusinessHour" -> BusinessHour(n, self.start, self.end)

InsideHours(self, dt) ==
    \E i \in 1 .. Len(self.start), day \in {dt.d - 1, dt.d} :
        LET len     == IF self.start[i] < self.end[i]
                       THEN self.end[i] - self.start[i]
                       ELSE self.end[i] + SecondsPerDay - self.start[i]
            opening == Stamp(day, self.start[i], 0)
            closing == Plus(opening, Stamp(len \div SecondsPerDay,
                                           len % SecondsPerDay, 0), "ns")
        IN  Weekday(day) < 5 /\ ~Less(dt, opening) /\ ~Less(closing, dt)

\* one minute before business hours open, or after they close
MinuteOutside(self, dt) ==
    /\ dt.f = 0
    /\ \/ IsOpening(self, Plus(dt, Stamp(0, 60, 0), "ns"))
       \/ IsClosing(self, Minus(dt, Stamp(0, 60, 0), "ns"))

Overnight == BusinessHour(1, <<Clock(19, 0)>>, <<Clock(5, 0)>>)

C12_Case == out.kind = "onOffset" /\ offset.variant = "BusinessHour"

\* C12: BusinessHour.onOffset(ts) is true exactly when ts lies inside one
\* of the configured intervals, opening and closing time included, and the
\* day on which the interval opened is a business day; with 19:00-05:00
\* Saturday 01:00 and 05:00 are on-offset, Sunday 23:00 and Monday 03:00 are
\* not; one minute before an opening or after a closing is off-offset.
C12_InsideHours ==
    C12_Case =>
        /\ out.value = InsideHours(offset, ts)
        /\ MinuteOutside(offset, ts) => out.value = FALSE
        /\ WithN(offset, 1) = Overnight /\ ts.f = 0 =>
               /\ ts.d = FirstDay + 5 /\ ts.s \in {Clock(1, 0), Clock(5, 0)} =>
                      out.value = TRUE
               /\ ts.d = FirstDay + 6 /\ ts.s = Clock(23, 0) => out.value = FALSE
               /\ ts.d = FirstDay /\ ts.s = Clock(3, 0) => out.value = FALSE

\* Saturday 05:00 sharp, the closing time of hours that opened on Friday
C12_Witness ==
    /\ C12_Case
    /\ WithN(offset, 1) = Overnight
    /\ ts = Stamp(FirstDay + 5, Clock(5, 0), 0)
    /\ out.value = TRUE

\* the later and the earlier of two timestamps
Later(a, b) == IF Less(a, b) THEN b ELSE a
Earlier(a, b) == IF Less(a, b) THEN a ELSE b

\* the open business time between a and b that falls in the hours opening
\* at start[i] on the day `day`, as whole seconds and nanoseconds
OpenPart(self, a, b, day, i) ==
    LET len     == IF self.start[i] < self.end[i]
                   THEN self.end[i] - self.start[i]
                   ELSE self.end[i] + SecondsPerDay - self.start[i]
        opening == Stamp(day, self.start[i], 0)
        closing == Stamp(day + (self.start[i] + len) \div SecondsPerDay,
                         (self.start[i] + len) % SecondsPerDay, 0)
        lo      == Later(opening, a)
        hi      == Earlier(closing, b)
    IN  IF Weekday(day) < 5 /\ Less(lo, hi)
        THEN [secs |-> TotalSeconds(hi) - TotalSeconds(lo), f |-> hi.f - lo.f]
        ELSE [secs |-> 0, f |-> 0]

\* the open business time between a and b, summed over the days from
\* `day` on and over the configured hours of each
RECURSIVE OpenTimeFrom(_, _, _, _, _)
OpenTimeFrom(self, a, b, day, i) ==
    IF day > b.d THEN [secs |-> 0, f |-> 0]
    ELSE LET part == OpenPart(self, a, b, day, i)
             rest == IF i < Len(self.start)
                     THEN OpenTimeFrom(self, a, b, day, i + 1)
                     ELSE OpenTimeFrom(self, a, b, day + 1, 1)
         IN  [secs |-> part.secs + rest.secs, f |-> part.f + rest.f]

\* the open business time between a and b is exactly `hours` hours
OpenHoursBetween(self, a, b, hours) ==
    LET total == OpenTimeFrom(self, a, b, a.d - 1, 1)
        U     == UnitsPerSecond("ns")
    IN  /\ total.f % U = 0
        /\ total.secs + total.f \div U = hours * 3600

\* r is where `size` hours of open business time from ts end
HoursApart(self, t, r, size) ==
    IF size > 0
    THEN LET s == IF onOffset(self, t) THEN t ELSE rollforward(self, t)
         IN  /\ ~Less(r, s)
             /\ onOffset(self, r)
             /\ OpenHoursBetween(self, s, r, size)
             /\ ~IsClosing(self, r)
    ELSE LET s == IF onOffset(self, t) THEN t ELSE rollback(self, t)
         IN  /\ ~Less(s, r)
             /\ onOffset(self, r)
             /\ OpenHoursBetween(self, r, s, -size)
             /\ ~IsOpening(self, r)

\* the part of a timestamp below the hour
SubHour(x) == <<x.s % 3600, x.f>>

\* the size of the BusinessHour that was applied
AppliedSize == IF out.kind = "addmul" THEN out.arg * offset.n ELSE offset.n

C13_Case ==
    /\ out.kind \in {"apply", "addmul"}
    /\ offset.variant = "BusinessHour"
    /\ offset.normalize = FALSE
    /\ AppliedSize # 0

-----------------------------------------------------------------------------
(* BusinessHour.__init__: the validation of start and end *)

\* the longest list of opening times handed to the constructor
MaxIntervals == 2

\* a time of day given as text, and as a datetime.time
Str(text) == [type |-> "str", text |-> text]
Time(h, m, s) == [type |-> "time", hour |-> h, minute |-> m, second |-> s]

DigitChars == <<"0", "1", "2", "3", "4", "5", "6", "7", "8", "9">>

\* the value of a decimal digit, -1 for any other character
Digit(c) ==
    IF \E k \in 1 .. 10 : DigitChars[k] = c
    THEN (CHOOSE k \in 1 .. 10 : DigitChars[k] = c) - 1
    ELSE -1

\* time.strptime(text, "%H:%M"): one or two digits of an hour up to 23, a
\* colon, one or two digits of a minute up to 59 and nothing more; the time
\* of day in seconds, -1 where strptime raises
strptime(text) ==
    LET len    == Len(text)
        colon  == IF len >= 2 /\ text[2] = ":" THEN 2
                  ELSE IF len >= 3 /\ text[3] = ":" THEN 3 ELSE 0
        Number(lo, hi) ==
            IF \E i \in lo .. hi : Digit(text[i]) < 0 THEN -1
            ELSE IF lo = hi THEN Digit(text[lo])
            ELSE Digit(text[lo]) * 10 + Digit(text[hi])
        hour   == Number(1, colon - 1)
        minute == Number(colon + 1, len)
    IN  IF colon = 0 \/ len < colon + 1 \/ len > colon + 2 THEN -1
        ELSE IF hour < 0 \/ hour > 23 \/ minute < 0 \/ minute > 59 THEN -1
        ELSE Clock(hour, minute)

\* variant of _validate_business_time that drops the seconds
ValidateDroppingSeconds(t_input) ==
    IF t_input.type = "str" THEN strptime(t_input.text)
    ELSE Clock(t_input.hour, t_input.minute)

\* the time of day of one element of start or end, -1 where a ValueError
\* is raised
_validate_business_time(t_input) ==
    IF t_input.type = "str" THEN strptime(t_input.text)
    ELSE IF t_input.second # 0 THEN -1
    ELSE Clock(t_input.hour, t_input.minute)

\* np.argsort(start)
argsort(start) ==
    LET idx == 1 .. Len(start)
    IN  CHOOSE p \in [idx -> idx] :
            /\ \A i, j \in idx : i # j => p[i] # p[j]
            /\ \A i, j \in idx : i < j => start[p[i]] <= start[p[j]]

\* the open and the closed seconds from the i-th opening time on, in the
\* order of the opening times
RECURSIVE total_secs(_, _, _)
total_secs(start, end, i) ==
    IF i > Len(start) THEN 0
    ELSE _get_business_hours_by_sec(start[i], end[i])
         + _get_business_hours_by_sec(end[i], start[(i % Len(start)) + 1])
         + total_secs(start, end, i + 1)

\* BusinessHour(start=start, end=end)
BusinessHour_init(start, end) ==
    IF Len(start) = 0 THEN Raise("ValueError")
    ELSE IF Len(end) = 0 THEN Raise("ValueError")
    ELSE LET starts == [i \in 1 .. Len(start) |-> _validate_business_time(start[i])]
             ends   == [i \in 1 .. Len(end) |-> _validate_business_time(end[i])]
         IN  IF \E i \in 1 .. Len(start) : starts[i] < 0 THEN Raise("ValueError")
             ELSE IF \E i \in 1 .. Len(end) : ends[i] < 0 THEN Raise("ValueError")
             ELSE IF Len(start) # Len(end) THEN Raise("ValueError")
             ELSE LET order  == argsort(starts)
                      sstart == [i \in 1 .. Len(starts) |-> starts[order[i]]]
                      send   == [i \in 1 .. Len(starts) |-> ends[order[i]]]
                  IN  IF total_secs(sstart, send, 1) # SecondsPerDay
                      THEN Raise("ValueError")
                      ELSE Return(BusinessHour(1, sstart, send))

(* Specification of the constructor *)

\* the times of test_constructor_errors, and 17:00 as a datetime.time
TimeInputs ==
    {Str(<<"0", "9", ":", "0", "0">>), Str(<<"1", "1", ":", "0", "0">>),
     Str(<<"1", "2", ":", "0", "0">>), Str(<<"2", "0", ":", "0", "0">>),
     Str(<<"1", "4", ":", "0", "0", ":", "0", "5">>), Str(<<"A", "A", "A">>),
     Time(11, 0, 5), Time(17, 0, 0)}

\* lists of at most MaxIntervals times
TimeLists ==
    UNION {[1 .. k -> TimeInputs] : k \in 0 .. MaxIntervals}

InitConstruct ==
    /\ call \in {[fn |-> "BusinessHour", start |-> s, end |-> e] :
                    s \in TimeLists, e \in TimeLists}
    /\ ret = Pending
    /\ IdleInfer
    /\ IdleCmp
    /\ IdleOffset

\* BusinessHour(start=call.start, end=call.end)
CallBusinessHour ==
    /\ ret.kind = "pending"
    /\ ret' = BusinessHour_init(call.start, call.end)
    /\ UNCHANGED <<call, inferVars, cmpVars, offsetVars>>

NextConstruct == CallBusinessHour

SpecConstruct == InitConstruct /\ [][NextConstruct]_vars

(* Properties of the constructor *)

\* two digits of a number below 100
TwoDigits(k) == <<DigitChars[(k \div 10) + 1], DigitChars[(k % 10) + 1]>>

\* the text is HH:MM
IsHHMM(text) ==
    /\ Len(text) = 5
    /\ text[3] = ":"
    /\ \E h \in 0 .. 23 : <<text[1], text[2]>> = TwoDigits(h)
    /\ \E mi \in 0 .. 59 : <<text[4], text[5]>> = TwoDigits(mi)

\* a time that is HH:MM, or a datetime.time without seconds
WellFormed(t) ==
    IF t.type = "str" THEN IsHHMM(t.text) ELSE t.second = 0

\* the time of day a well-formed time names, in seconds
NamedTime(t) ==
    IF t.type = "str"
    THEN LET h  == CHOOSE h \in 0 .. 23 : <<t.text[1], t.text[2]>> = TwoDigits(h)
             mi == CHOOSE mi \in 0 .. 59 : <<t.text[4], t.text[5]>> = TwoDigits(mi)
         IN  Clock(h, mi)
    ELSE Clock(t.hour, t.minute)

\* x lies on the way round the clock from `from` to `to`, both ends
\* included; from = to is the single point
OnTheWay(x, from, to) ==
    (x - from) % SecondsPerDay <= (to - from) % SecondsPerDay

\* the i-th and the j-th configured hours overlap or touch
OverlapOrTouch(i, j) ==
    LET si == NamedTime(call.start[i])
        ei == NamedTime(call.end[i])
        sj == NamedTime(call.start[j])
        ej == NamedTime(call.end[j])
    IN  OnTheWay(sj, si, ei) \/ OnTheWay(si, sj, ej)

Malformed ==
    \/ Len(call.start) # Len(call.end)
    \/ Len(call.start) = 0
    \/ Len(call.end) = 0
    \/ \E i \in 1 .. Len(call.start) : ~WellFormed(call.start[i])
    \/ \E i \in 1 .. Len(call.end) : ~WellFormed(call.end[i])

SomeOverlap ==
    \E i, j \in 1 .. Len(call.start) : i # j /\ OverlapOrTouch(i, j)

\* the offset returned holds exactly the spans that were listed
SameSpans(self) ==
    {<<self.start[i], self.end[i]>> : i \in 1 .. Len(self.start)}
        = {<<NamedTime(call.start[i]), NamedTime(call.end[i])>> :
               i \in 1 .. Len(call.start)}

C14_Case == call.fn = "BusinessHour" /\ ret.kind # "pending"

SomeFullDay ==
    \E i \in 1 .. Len(call.start) :
        NamedTime(call.start[i]) = NamedTime(call.end[i])

-----------------------------------------------------------------------------
(* Properties of CustomBusinessDay *)

\* the days from lo to hi that the weekmask enables and that are no holiday
EnabledDays(self, lo, hi) ==
    {x \in lo .. hi : Weekday(x) \in self.weekmask /\ x \notin self.holidays}

C15_Case ==
    /\ out.kind = "apply"
    /\ offset.variant = "CustomBusinessDay"
    /\ offset.n # 0

\* C15: CustomBusinessDay(n) with a weekmask and a holiday set, n # 0:
\* apply(ts) falls on a day the weekmask enables and that is no holiday, and
\* it is exactly the |n|-th such day after (n > 0) or before (n < 0) the
\* date of ts; holidays and masked weekdays are never counted as steps.
C15_NthEnabledDay ==
    C15_Case =>
        /\ EnabledDays(offset, out.value.d, out.value.d) # {}
        /\ offset.n > 0 =>
               /\ out.value.d > ts.d
               /\ Cardinality(EnabledDays(offset, ts.d + 1, out.value.d)) = offset.n
        /\ offset.n < 0 =>
               /\ out.value.d < ts.d
               /\ Cardinality(EnabledDays(offset, out.value.d, ts.d - 1)) = -offset.n

\* from a holiday, over another holiday and the days the weekmask leaves out
C15_Witness ==
    /\ C15_Case
    /\ offset.n > 3
    /\ offset.weekmask # 0 .. 4
    /\ ts.d \in offset.holidays
    /\ \E x \in offset.holidays : ts.d < x /\ x < out.value.d
    /\ out.value.d - ts.d > offset.n + 2

-----------------------------------------------------------------------------
(* Calendar primitives: ccalendar and pandas/tseries/util.py *)

\* the years probed lie at most this far from a turn of the century
YearWindow == 10

\* days before the first of each month, in a common and in a leap year
month_offset ==
    <<0, 31, 59, 90, 120, 151, 181, 212, 243, 273, 304, 334, 365,
      0, 31, 60, 91, 121, 152, 182, 213, 244, 274, 305, 335, 366>>

get_day_of_year(year, month, day) ==
    LET isleap == IF is_leap_year(year) THEN 1 ELSE 0
    IN  month_offset[isleap * 13 + month] + day

sakamoto_arr == <<0, 3, 2, 5, 0, 3, 5, 1, 4, 6, 2, 4>>

\* Monday = 0 .. Sunday = 6
ccalendar_dayofweek(y, m, d) ==
    LET y1  == IF m < 3 THEN y - 1 ELSE y
        day == (y1 + y1 \div 4 - y1 \div 100 + y1 \div 400
                + sakamoto_arr[m] + d) % 7
    IN  (day + 6) % 7

\* variant of get_week_of_year that keeps the estimate of week 53
WeekOfYearUnverified(year, month, day) ==
    LET doy      == get_day_of_year(year, month, day)
        dow      == ccalendar_dayofweek(year, month, day)
        estimate == (doy - 1) - dow + 3
    IN  IF estimate >= 0 THEN estimate \div 7 + 1
        ELSE IF estimate > -2 \/ (estimate = -2 /\ is_leap_year(year - 1))
        THEN 53 ELSE 52

get_week_of_year(year, month, day) ==
    LET doy      == get_day_of_year(year, month, day)
        dow      == ccalendar_dayofweek(year, month, day)
        estimate == (doy - 1) - dow + 3
        iso_week == IF estimate >= 0 THEN estimate \div 7 + 1 ELSE estimate
    IN  IF iso_week < 0
        THEN IF iso_week > -2 \/ (iso_week = -2 /\ is_leap_year(year - 1))
             THEN 53 ELSE 52
        ELSE IF iso_week = 53 /\ 31 - day + dow < 3 THEN 1
        ELSE iso_week

get_iso_calendar(year, month, day) ==
    LET week     == get_week_of_year(year, month, day)
        dow      == ccalendar_dayofweek(year, month, day)
        iso_year == IF month = 1 /\ week >= 52 THEN year - 1
                    ELSE IF month = 12 /\ week = 1 THEN year + 1
                    ELSE year
    IN  <<iso_year, week, dow + 1>>

\* variant of isleapyear with a leap year every fourth year
LeapEveryFourthYear(year) == year % 4 = 0

\* pandas.tseries.util.isleapyear
isleapyear(year) ==
    year % 400 = 0 \/ (year % 4 = 0 /\ year % 100 > 0)

(* Specification of the calendar primitives *)

\* the years of the dates: around 1900, 2010 and 2100
DateYears ==
    {c + k : c \in {1900, 2010, 2100}, k \in (-YearWindow) .. YearWindow}

\* the years handed to isleapyear: those, and years around 0 and before
LeapYears ==
    DateYears \cup {c + k : c \in {-400, -100, 0}, k \in (-YearWindow) .. YearWindow}

Dates ==
    {<<y, mo, d>> \in DateYears \X (1 .. 12) \X (1 .. 31) :
        d <= get_days_in_month(y, mo)}

InitCalendar ==
    /\ call \in {[fn |-> f, year |-> x[1], month |-> x[2], day |-> x[3]] :
                    f \in {"get_day_of_year", "get_iso_calendar"}, x \in Dates}
                \cup {[fn |-> "isleapyear", year |-> y] : y \in LeapYears}
    /\ ret = Pending
    /\ IdleInfer
    /\ IdleCmp
    /\ IdleOffset

\* ccalendar.get_day_of_year(year, month, day)
CallGetDayOfYear ==
    /\ call.fn = "get_day_of_year" /\ ret.kind = "pending"
    /\ ret' = Return(get_day_of_year(call.year, call.month, call.day))
    /\ UNCHANGED <<call, inferVars, cmpVars, offsetVars>>

\* ccalendar.get_iso_calendar(year, month, day)
CallGetIsoCalendar ==
    /\ call.fn = "get_iso_calendar" /\ ret.kind = "pending"
    /\ ret' = Return(get_iso_calendar(call.year, call.month, call.day))
    /\ UNCHANGED <<call, inferVars, cmpVars, offsetVars>>

\* isleapyear(year)
CallIsLeapYear ==
    /\ call.fn = "isleapyear" /\ ret.kind = "pending"
    /\ ret' = Return(isleapyear(call.year))
    /\ UNCHANGED <<call, inferVars, cmpVars, offsetVars>>

NextCalendar == CallGetDayOfYear \/ CallGetIsoCalendar \/ CallIsLeapYear

SpecCalendar == InitCalendar /\ [][NextCalendar]_vars

(* Properties of the calendar primitives *)

\* the leap-year rule of the Gregorian calendar, as the claim writes it
GregorianLeap(y) == y % 4 = 0 /\ (y % 100 # 0 \/ y % 400 = 0)

\* the length of a month, February having 29 days in a leap year
MonthLength(y, mo) ==
    IF mo = 2 THEN (IF GregorianLeap(y) THEN 29 ELSE 28)
    ELSE IF mo \in {4, 6, 9, 11} THEN 30 ELSE 31

\* the days of the year y before the first of the month mo
RECURSIVE DaysBeforeMonth(_, _)
DaysBeforeMonth(y, mo) ==
    IF mo = 1 THEN 0 ELSE DaysBeforeMonth(y, mo - 1) + MonthLength(y, mo - 1)

C16_Case ==
    call.fn \in {"get_day_of_year", "isleapyear"} /\ ret.kind = "return"

\* C16: get_day_of_year(y, m, d) is 1 plus the number of days from January 1
\* of y to the date, February having 29 days exactly when y % 4 = 0 and
\* (y % 100 # 0 or y % 400 = 0); December 31 gives 366 in a leap year and
\* 365 otherwise; isleapyear(y) agrees with that rule for every year.
C16_DayOfYear ==
    C16_Case =>
        IF call.fn = "isleapyear"
        THEN ret.value = GregorianLeap(call.year)
        ELSE /\ ret.value
                    = 1 + DaysBeforeMonth(call.year, call.month) + (call.day - 1)
             /\ (call.month = 12 /\ call.day = 31) =>
                    ret.value = IF GregorianLeap(call.year) THEN 366 ELSE 365

\* the last day of the leap year 2000
C16_Witness ==
    /\ C16_Case
    /\ call.fn = "get_day_of_year"
    /\ call.year = 2000 /\ call.month = 12 /\ call.day = 31
    /\ ret.value = 366

\* the ISO-8601 triple of a date: the week belongs to the year of its
\* Thursday, and week 1 is the week of the year's first Thursday
IsoReference(y, mo, d) ==
    LET z        == DayOfDate(y, mo, d)
        thursday == z - Weekday(z) + 3
        iso_year == DateOfDay(thursday).Y
        week     == (thursday - DayOfDate(iso_year, 1, 1)) \div 7 + 1
    IN  <<iso_year, week, Weekday(z) + 1>>

C17_Case == call.fn = "get_iso_calendar" /\ ret.kind = "return"

\* C17: get_iso_calendar(y, m, d) is the ISO-8601 triple (iso_year,
\* iso_week, iso_weekday) of the date: week 1 holds the year's first
\* Thursday, the weekday is 1 for Monday to 7 for Sunday, the week lies in
\* 1..53, and days of late December or early January may belong to week 1
\* of the next or to week 52 or 53 of the previous ISO year.
C17_IsoCalendar ==
    C17_Case =>
        /\ ret.value = IsoReference(call.year, call.month, call.day)
        /\ ret.value[2] \in 1 .. 53
        /\ ret.value[3] \in 1 .. 7

\* 2010-01-03, the Sunday of week 53 of 2009
C17_Witness ==
    /\ C17_Case
    /\ call.year = 2010 /\ call.month = 1 /\ call.day = 3
    /\ ret.value = <<2009, 53, 7>>

-----------------------------------------------------------------------------
(* pandas/tseries/util.py: pivot_annual *)

\* the longest series handed to pivot_annual
MaxSeries == 3

\* nanops.unique1d: the distinct values in the order they first appear
unique1d(values) ==
    LET First(i) == \A j \in 1 .. (i - 1) : values[j] # values[i]
        firsts   == SelectSeq([i \in 1 .. Len(values) |-> i], First)
    IN  [k \in 1 .. Len(firsts) |-> values[firsts[k]]]

\* years.min()
SeqMin(values) ==
    CHOOSE x \in {values[i] : i \in 1 .. Len(values)} :
        \A i \in 1 .. Len(values) : x <= values[i]

\* values.put(flat_index, series.values) on an array of `size` cells, all
\* NaN before: the cells that were set, the later value of a cell winning;
\* an index outside the array raises
put(size, flat_index, values) ==
    IF \E i \in 1 .. Len(flat_index) : flat_index[i] >= size \/ flat_index[i] < -size
    THEN Raise("IndexError")
    ELSE LET at(i) == flat_index[i] % size
             last(cell) == CHOOSE i \in 1 .. Len(flat_index) :
                               /\ at(i) = cell
                               /\ \A j \in (i + 1) .. Len(flat_index) : at(j) # cell
         IN  Return([cell \in {at(i) : i \in 1 .. Len(flat_index)} |->
                         values[last(cell)]])

\* pivot_annual(series, freq), the series holding values of the given dtype;
\* the unary minus of a boolean array is its negation
pivot_annual(series, freq, series_dtype) ==
    LET n     == Len(series)
        year  == [i \in 1 .. n |-> series[i].date[1]]
        years == unique1d(year)
        dayofyear(i) == get_day_of_year(series[i].date[1], series[i].date[2],
                                        series[i].date[3])
        width == IF freq = "D" THEN 366 ELSE 12
        day_offset == [i \in 1 .. n |->
                          IF freq = "D"
                          THEN IF ~isleapyear(year[i]) /\ dayofyear(i) - 1 >= 59
                               THEN dayofyear(i) - 1 + 1
                               ELSE dayofyear(i) - 1
                          ELSE series[i].date[2] - 1]
        flat_index == [i \in 1 .. n |->
                          (year[i] - SeqMin(years)) * width + day_offset[i]]
        filled == put(Len(years) * width, flat_index,
                      [i \in 1 .. n |-> series[i].value])
    IN  IF freq \notin {"D", "M", "BM"} THEN Raise("NotImplementedError")
        ELSE IF series_dtype = "int64" THEN Raise("Exception")
        ELSE IF filled.kind = "raise" THEN filled
        ELSE Return([index |-> years, width |-> width, values |-> filled.value])

(* Specification of pivot_annual *)

\* the first and the last day of a year and the days around February 29, in
\* the leap year 2000 and the three years after it
PivotDates ==
    {<<y, x[1], x[2]>> :
        y \in 2000 .. 2003,
        x \in {<<1, 1>>, <<2, 28>>, <<2, 29>>, <<3, 1>>, <<12, 31>>}}
    \cap {<<y, mo, d>> \in (2000 .. 2003) \X (1 .. 12) \X (1 .. 31) :
             d <= get_days_in_month(y, mo)}

\* series of at most MaxSeries days in the order of time, the k-th value
\* being k
PivotSeries ==
    {s \in UNION {[1 .. k -> PivotDates] : k \in 1 .. MaxSeries} :
        \A i \in 1 .. (Len(s) - 1) :
            DayOfDate(s[i][1], s[i][2], s[i][3])
                < DayOfDate(s[i + 1][1], s[i + 1][2], s[i + 1][3])}

InitPivot ==
    /\ call \in {[fn |-> "pivot_annual",
                  series |-> [i \in 1 .. Len(s) |-> [date |-> s[i], value |-> i]],
                  freq |-> f, dtype |-> t] :
                    s \in PivotSeries, f \in {"D", "M", "H"},
                    t \in {"float64", "int64"}}
    /\ ret = Pending
    /\ IdleInfer
    /\ IdleCmp
    /\ IdleOffset

\* pivot_annual(series, freq)
CallPivotAnnual ==
    /\ call.fn = "pivot_annual" /\ ret.kind = "pending"
    /\ ret' = pivot_annual(call.series, call.freq, call.dtype)
    /\ UNCHANGED <<call, inferVars, cmpVars, offsetVars>>

NextPivot == CallPivotAnnual

SpecPivot == InitPivot /\ [][NextPivot]_vars

(* Properties of pivot_annual *)

\* the column of a day: its day of the year, counted as in a leap year
AlignedColumn(date) ==
    LET days == DayOfDate(date[1], date[2], date[3]) - DayOfDate(date[1], 1, 1)
    IN  IF GregorianLeap(date[1]) \/ date[2] <= 2 THEN days + 1 ELSE days + 2

\* the years of the series
SeriesYears == {call.series[i].date[1] : i \in 1 .. Len(call.series)}

\* the cell of the table in the row labelled y and the column c holds v
CellHolds(table, y, c, v) ==
    \E r \in 1 .. Len(table.index) :
        /\ table.index[r] = y
        /\ LET cell == (r - 1) * table.width + (c - 1)
           IN  cell \in DOMAIN table.values /\ table.values[cell] = v

\* the cell in the row r and the column c is masked
Masked(table, r, c) ==
    (r - 1) * table.width + (c - 1) \notin DOMAIN table.values

C18_Case ==
    /\ call.fn = "pivot_annual" /\ call.freq = "D" /\ call.dtype = "float64"
    /\ ret.kind # "pending"

\* C18: for a daily series pivot_annual returns a table with as many rows as
\* the series has distinct years, every value in the row of its year and in
\* the column of its leap-year-aligned day of the year (February 28 in
\* column 59, March 1 in column 61, column 60 masked in a year that is no
\* leap year), for any set of years, consecutive or not.
C18_PivotByYear ==
    C18_Case =>
        /\ ret.kind = "return"
        /\ Len(ret.value.index) = Cardinality(SeriesYears)
        /\ {ret.value.index[r] : r \in 1 .. Len(ret.value.index)} = SeriesYears
        /\ \A i \in 1 .. Len(call.series) :
               CellHolds(ret.value, call.series[i].date[1],
                         AlignedColumn(call.series[i].date), call.series[i].value)
        /\ \A r \in 1 .. Len(ret.value.index) :
               ~GregorianLeap(ret.value.index[r]) => Masked(ret.value, r, 60)

\* C18 for the series whose years follow one another
C18_ConsecutiveYears ==
    (C18_Case /\ \A y \in SeriesYears : y = 2000 \/ (y - 1) \in SeriesYears)
        => C18_PivotByYear

-----------------------------------------------------------------------------
(* Properties of the daily family of infer_freq *)

\* the inferer that infer_freq builds for the input
Inferer == FrequencyInferer(index, tz, creso, FALSE)

\* get_freq hands the input to the rules of the daily family
DailyFamily ==
    /\ Called /\ dtype = "M8" /\ Len(index) >= 3
    /\ Inferer.is_monotonic /\ _is_unique(index)
    /\ ~IsZero(deltas(Inferer)[1])
    /\ _is_multiple(deltas(Inferer)[1], periods_per_day(creso))

\* a count in front of an alias, or none
IsCount(p) == p = "" \/ IsCountAboveOne(p) \/ IsCountBelowOne(p)

\* the string a is an alias of the set bases, with or without a count
AliasOf(a, bases) ==
    \E b \in bases :
        /\ Len(b) <= Len(a)
        /\ SubSeq(a, Len(a) - Len(b) + 1, Len(a)) = b
        /\ IsCount(SubSeq(a, 1, Len(a) - Len(b)))

AnnualAliases ==
    {p \o "-" \o mo : p \in {"A", "AS", "BA", "BAS"}, mo \in MonthNames}

QuarterlyAliases ==
    {p \o "-" \o mo : p \in {"Q", "QS", "BQ", "BQS"}, mo \in MonthNames}

MonthlyAliases == {"M", "MS", "BM", "BMS"}

DailyWeeklyAliases == {"D"} \cup {"W-" \o d : d \in DayNames}

WomAliases == {"WOM-" \o ToString(k) \o d : k \in 1 .. 4, d \in DayNames}

\* the dates of the input as seen in its time zone
InputDates == [i \in 1 .. Len(index) |-> DateOfDay(Inferer.i8values[i].d)]

\* all dates hold the same place in their month: the first or the last
\* day, or the first or the last Monday-to-Friday day
PositionConsistent ==
    LET n       == Len(index)
        date(i) == InputDates[i]
        wd(i)   == Weekday(Inferer.i8values[i].d)
        dim(i)  == get_days_in_month(date(i).Y, date(i).M)
    IN  \/ \A i \in 1 .. n : date(i).D = 1
        \/ \A i \in 1 .. n : date(i).D = dim(i)
        \/ \A i \in 1 .. n :
               wd(i) < 5 /\ (date(i).D = 1 \/ (date(i).D <= 3 /\ wd(i) = 0))
        \/ \A i \in 1 .. n :
               wd(i) < 5 /\ (date(i).D = dim(i) \/ (dim(i) - date(i).D <= 2 /\ wd(i) = 4))

\* the months from each date to the next when they are the same all along,
\* 0 otherwise
MonthSpacing ==
    LET Months(i) == InputDates[i].Y * 12 + InputDates[i].M
        k == Months(2) - Months(1)
    IN  IF \A i \in 1 .. (Len(index) - 1) : Months(i + 1) - Months(i) = k
        THEN k ELSE 0

\* C19: in the daily family the rules are tried in the order annual,
\* quarterly, monthly, unique delta (daily or weekly), business daily, week
\* of month, and the first that matches decides: dates of one position in
\* the month spaced 12*j months apart give an annual alias, spaced 3*j months
\* apart (4 not dividing j) a quarterly alias, and an input that matches none
\* of the six rules gives None.
C19_RuleOrder ==
    DailyFamily =>
        /\ result.kind = "return"
        /\ IF _get_annual_rule(Inferer) # None
           THEN AliasOf(result.value, AnnualAliases)
           ELSE IF _get_quarterly_rule(Inferer) # None
           THEN AliasOf(result.value, QuarterlyAliases)
           ELSE IF _get_monthly_rule(Inferer) # None
           THEN AliasOf(result.value, MonthlyAliases)
           ELSE IF is_unique(Inferer)
           THEN AliasOf(result.value, DailyWeeklyAliases)
           ELSE IF _is_business_daily(Inferer) THEN result.value = "B"
           ELSE IF _get_wom_rule(Inferer) # None
           THEN result.value \in WomAliases
           ELSE result.value = None
        /\ (PositionConsistent /\ MonthSpacing # 0 /\ MonthSpacing % 12 = 0)
               => AliasOf(result.value, AnnualAliases)
        /\ (PositionConsistent /\ MonthSpacing % 12 # 0 /\ MonthSpacing % 3 = 0)
               => AliasOf(result.value, QuarterlyAliases)

\* business month ends six months apart: two quarters, not six months
C19_Witness ==
    /\ DailyFamily
    /\ PositionConsistent /\ MonthSpacing = 6
    /\ \E i \in 1 .. Len(index) :
           InputDates[i].D # get_days_in_month(InputDates[i].Y, InputDates[i].M)
    /\ AliasOf(result.value, {"2" \o b : b \in QuarterlyAliases})

DailyFamilyAliases ==
    AnnualAliases \cup QuarterlyAliases \cup MonthlyAliases
        \cup DailyWeeklyAliases \cup {"B"} \cup WomAliases

\* from each timestamp to the next is a whole number of days
WholeDaysApart(idx) ==
    \A i \in 1 .. (Len(idx) - 1) :
        idx[i + 1].s = idx[i].s /\ idx[i + 1].f = idx[i].f

\* C20: the daily family is entered only when the spacing is a whole number
\* of days: whenever infer_freq returns an alias of the daily family
\* (annual, quarterly, monthly, weekly, daily, B or WOM) for a timezone-naive
\* input, every difference between consecutive timestamps is an exact
\* multiple of one day; the first element of the sorted deltas is never
\* taken for the common spacing unless it is the only one.
C20_WholeDaysOnly ==
    (/\ Called /\ dtype = "M8" /\ tz = "naive"
     /\ result.kind = "return"
     /\ AliasOf(result.value, DailyFamilyAliases))
        => WholeDaysApart(index)

-----------------------------------------------------------------------------
(* Properties of the sub-daily branch of infer_freq *)

\* the differences between consecutive timestamps as seen in the time zone
LocalDiffs ==
    {Minus(Inferer.i8values[i + 1], Inferer.i8values[i], creso) :
        i \in 1 .. (Len(index) - 1)}

\* the differences between consecutive timestamps as stored
RawDiffs ==
    {Minus(index[i + 1], index[i], creso) : i \in 1 .. (Len(index) - 1)}

\* the smallest of a set of differences
Smallest(S) == CHOOSE x \in S : \A y \in S : ~Less(y, x)

\* a difference that is a whole number of days and not zero
WholeDays(x) == x.s = 0 /\ x.f = 0 /\ x.d # 0

\* the differences are those of the set H of whole hours
InHours(S, H) == S = {Stamp(h \div 24, (h % 24) * 3600, 0) : h \in H}

\* get_freq goes past the daily family for the input
SubDaily ==
    /\ Called /\ dtype \in {"M8", "m8"} /\ Len(index) >= 3
    /\ (StrictlyIncreasing(index) \/ StrictlyDecreasing(index))
    /\ ~WholeDays(Smallest(LocalDiffs))

BusinessHourly ==
    \/ InHours(LocalDiffs, {1, 17})
    \/ InHours(LocalDiffs, {1, 65})
    \/ InHours(LocalDiffs, {1, 17, 65})

\* C21: for a monotonic input of at least 3 distinct timestamps whose
\* smallest difference in the time zone is not a whole number of days,
\* infer_freq returns BH exactly when the set of those differences in hours
\* is {1, 17}, {1, 65} or {1, 17, 65}; the test comes before the test that
\* the differences are all equal, so such inputs never give None, and it
\* looks at the set of differences only.
C21_BusinessHourly ==
    SubDaily => (result = Return("BH") <=> BusinessHourly)

\* differences of 65, 1 and 17 hours with the 65 hours first, from a Monday:
\* no business week has them in that place
C21_Witness ==
    /\ SubDaily
    /\ InHours(LocalDiffs, {1, 17, 65})
    /\ Minus(index[2], index[1], creso) = Stamp(2, 17 * 3600, 0)
    /\ result = Return("BH")

\* the alias of k units
Counted(k, unit) == IF k = 1 THEN unit ELSE ToString(k) \o unit

\* the alias of the coarsest of hour, minute, second, millisecond,
\* microsecond and nanosecond that divides the difference x
CoarsestUnit(x) ==
    LET secs  == TotalSeconds(x)
        ups   == UnitsPerSecond(creso)
        milli == ups \div 1000
        micro == ups \div 1000000
    IN  IF x.f = 0 /\ secs % 3600 = 0 THEN Counted(secs \div 3600, "H")
        ELSE IF x.f = 0 /\ secs % 60 = 0 THEN Counted(secs \div 60, "T")
        ELSE IF x.f = 0 THEN Counted(secs, "S")
        ELSE IF x.f % milli = 0 THEN Counted(secs * 1000 + x.f \div milli, "L")
        ELSE IF x.f % micro = 0 THEN Counted(secs * 1000000 + x.f \div micro, "U")
        ELSE Counted(secs * ups + x.f, "N")

\* C22: past the daily family and the business-hour test, infer_freq returns
\* None when the differences of the stored values are not all equal, and
\* otherwise the alias of the coarsest unit among hour, minute, second,
\* millisecond, microsecond and nanosecond that divides the common
\* difference, prefixed by the ratio when the ratio is not 1.
C22_CoarsestUnit ==
    SubDaily /\ ~BusinessHourly =>
        IF Cardinality(RawDiffs) > 1 THEN result = Return(None)
        ELSE result = Return(CoarsestUnit(Smallest(RawDiffs)))

\* half an hour apart: minutes are the coarsest unit and the ratio is 30
C22_Witness ==
    /\ SubDaily
    /\ RawDiffs = {Stamp(0, 1800, 0)}
    /\ result = Return("30T")

-----------------------------------------------------------------------------
(* Properties of the business-day and week-of-month rules *)

\* a naive datetime input of at least 3 timestamps
NaiveInput == Called /\ dtype = "M8" /\ tz = "naive" /\ Len(index) >= 3

\* the step from element i to the next, in days, or 0 if it is not whole days
DayShift(i) ==
    LET x == Minus(index[i + 1], index[i], creso)
    IN  IF x.s = 0 /\ x.f = 0 THEN x.d ELSE 0

\* the day deltas are 1 and 3, a shift of 3 lands on a Monday and a shift
\* of 1 on a Tuesday to Friday
BusinessShifts ==
    /\ {DayShift(i) : i \in 1 .. (Len(index) - 1)} = {1, 3}
    /\ \A i \in 1 .. (Len(index) - 1) :
           LET landing == Weekday(index[i + 1].d)
           IN  /\ DayShift(i) = 3 => landing = 0
               /\ DayShift(i) = 1 => landing \in 1 .. 4

\* every element is followed by the next Monday-to-Friday day at the same
\* time, and one of the steps goes from a Friday to a Monday
BusinessRun ==
    /\ \A i \in 1 .. Len(index) : Weekday(index[i].d) <= 4
    /\ \A i \in 1 .. (Len(index) - 1) :
           DayShift(i) = (IF Weekday(index[i].d) = 4 THEN 3 ELSE 1)
    /\ \E i \in 1 .. (Len(index) - 1) : Weekday(index[i].d) = 4

\* C23: for a naive input of at least 3 timestamps, infer_freq returns B if
\* and only if the set of day deltas is {1, 3}, every shift of 3 lands on a
\* Monday and every shift of 1 on a Tuesday to Friday; the elements of such
\* an input are Monday-to-Friday days at one common time, and every run of
\* consecutive Monday-to-Friday days with a step from Friday to Monday is
\* given B.
C23_BusinessDaily ==
    NaiveInput =>
        /\ result = Return("B") <=> BusinessShifts
        /\ result = Return("B") =>
               \A i \in 1 .. Len(index) :
                   /\ Weekday(index[i].d) <= 4
                   /\ index[i].s = index[1].s /\ index[i].f = index[1].f
        /\ BusinessRun => result = Return("B")

\* Friday 09:00, Monday 09:00, Tuesday 09:00
C23_Witness ==
    /\ NaiveInput
    /\ Weekday(index[1].d) = 4 /\ index[1].s = 9 * 3600
    /\ BusinessRun
    /\ result = Return("B")

\* the weekdays of the elements, on the clock of the zone
LocalWeekdays == {Weekday(Inferer.i8values[i].d) : i \in 1 .. Len(index)}

\* the weeks of the month of the elements, the fifth left out
WeeksOfMonth ==
    {w \in {(DateOfDay(Inferer.i8values[i].d).D - 1) \div 7 : i \in 1 .. Len(index)} :
        w < 4}

\* the daily family is entered and none of the annual, quarterly, monthly,
\* equal-delta and business-day rules answers
NoEarlierRule ==
    /\ DailyFamily
    /\ _get_annual_rule(Inferer) = None
    /\ _get_quarterly_rule(Inferer) = None
    /\ _get_monthly_rule(Inferer) = None
    /\ ~is_unique(Inferer)
    /\ ~_is_business_daily(Inferer)

\* C24: when no earlier rule of the daily family matches, the result is
\* WOM-<k><DAY> exactly when all elements fall on the single weekday DAY and
\* the set of values (day - 1) // 7, those of 4 and more left out, has the
\* single member k - 1, so that k is one of 1..4; otherwise it is None.
C24_WeekOfMonth ==
    NoEarlierRule =>
        IF Cardinality(LocalWeekdays) = 1 /\ Cardinality(WeeksOfMonth) = 1
        THEN \E k \in 1 .. 4 :
                 /\ WeeksOfMonth = {k - 1}
                 /\ result = Return("WOM-" \o ToString(k) \o DayName(Inferer.i8values[1].d))
        ELSE result = Return(None)

\* Fridays of the fourth week and one Friday on the 29th of a month or later
C24_Witness ==
    /\ NoEarlierRule
    /\ \E i \in 1 .. Len(index) : DateOfDay(index[i].d).D >= 29
    /\ result = Return("WOM-4FRI")

-----------------------------------------------------------------------------
(* Specification of the opening times of a BusinessHour *)

InitOpening ==
    /\ offset \in {BusinessHour(n, h[1], h[2]) :
                       n \in -MaxHours .. MaxHours, h \in BusinessHours}
    /\ ts \in Timestamps(offset)
    /\ out = Pending
    /\ IdleInfer
    /\ IdleCmp
    /\ IdleCall

\* offset._next_opening_time(ts)
CallNextOpeningTime ==
    /\ out.kind = "pending"
    /\ out' = Outcome("next_opening", ts, _next_opening_time(offset, ts, 1))
    /\ UNCHANGED <<offset, ts, inferVars, cmpVars, callVars>>

\* offset._prev_opening_time(ts)
CallPrevOpeningTime ==
    /\ out.kind = "pending"
    /\ out' = Outcome("prev_opening", ts, _prev_opening_time(offset, ts))
    /\ UNCHANGED <<offset, ts, inferVars, cmpVars, callVars>>

NextOpening == CallNextOpeningTime \/ CallPrevOpeningTime

SpecOpening == InitOpening /\ [][NextOpening]_vars

\* the times within a week of x at which the business hours open, as given
\* by the start times and the days Monday to Friday alone
Openings(self, x) ==
    {Stamp(d, self.start[i], 0) :
        d \in {e \in (x.d - 7) .. (x.d + 7) : Weekday(e) < 5},
        i \in 1 .. Len(self.start)}

\* the smallest opening time at or after x, the largest at or before x
OpeningAtOrAfter(self, x) ==
    CHOOSE v \in Openings(self, x) :
        /\ ~Less(v, x)
        /\ \A g \in Openings(self, x) : ~Less(g, x) => ~Less(g, v)

OpeningAtOrBefore(self, x) ==
    CHOOSE v \in Openings(self, x) :
        /\ ~Less(x, v)
        /\ \A g \in Openings(self, x) : ~Less(x, g) => ~Less(v, g)

\* C25 as stated: for every BusinessHour, whatever its size n, and every
\* timestamp, _next_opening_time gives the smallest opening time on a
\* business day at or after the timestamp and _prev_opening_time the largest
\* at or before it; the results depend on the start times and the business
\* days only, not on the end times or on n.
C25_Original ==
    /\ out.kind = "next_opening" => out.value = OpeningAtOrAfter(offset, ts)
    /\ out.kind = "prev_opening" => out.value = OpeningAtOrBefore(offset, ts)

\* C25 amended: for n >= 0, _next_opening_time gives the smallest opening
\* time at or after the timestamp and _prev_opening_time the largest at or
\* before it; for n < 0 the two are exchanged.  The results depend on the
\* start times, the business days and the sign of n only.
C25_Amended ==
    LET ahead == IF offset.n >= 0 THEN "next_opening" ELSE "prev_opening"
        back  == IF offset.n >= 0 THEN "prev_opening" ELSE "next_opening"
    IN  /\ out.kind = ahead => out.value = OpeningAtOrAfter(offset, ts)
        /\ out.kind = back => out.value = OpeningAtOrBefore(offset, ts)

\* BusinessHour(n=-1, start=["17:00", "08:00"], end=["05:00", "10:00"]) on
\* Tuesday 2014-07-01 11:00: the next opening time is 08:00 of that day
C25_Witness ==
    /\ offset.n < 0
    /\ out.kind = "next_opening"
    /\ Less(out.value, ts)
    /\ out.value = OpeningAtOrBefore(offset, ts)

\* the opening times of the test, as the model computes them
C25_TestCases ==
    LET bh(n, st, en) == BusinessHour(n, st, en)
        o1 == bh(-1, <<Clock(8, 0), Clock(17, 0)>>, <<Clock(10, 0), Clock(5, 0)>>)
        o2 == bh(2, <<Clock(9, 0)>>, <<Clock(4, 0)>>)
        o3 == bh(3, <<Clock(17, 0)>>, <<Clock(3, 0)>>)
        t(d, h, mi) == Stamp(DayOfDate(2014, 7, d), Clock(h, mi), 0)
    IN  /\ _next_opening_time(o1, t(1, 11, 0), 1) = t(1, 8, 0)
        /\ _prev_opening_time(o1, t(1, 11, 0)) = t(1, 17, 0)
        /\ _next_opening_time(o1, t(5, 10, 0), 1) = t(4, 17, 0)
        /\ _prev_opening_time(o1, t(5, 10, 0)) = t(7, 8, 0)
        /\ _next_opening_time(o1, t(2, 8, 0), 1) = t(2, 8, 0)
        /\ _prev_opening_time(o1, t(2, 8, 0)) = t(2, 8, 0)
        /\ _next_opening_time(o2, t(1, 11, 0), 1) = t(2, 9, 0)
        /\ _prev_opening_time(o2, t(1, 11, 0)) = t(1, 9, 0)
        /\ _next_opening_time(o2, t(7, 9, 1), 1) = t(8, 9, 0)
        /\ _prev_opening_time(o2, t(5, 10, 0)) = t(4, 9, 0)
        /\ _next_opening_time(o3, t(4, 23, 0), 1) = t(7, 17, 0)
        /\ _prev_opening_time(o3, t(1, 11, 0)) = Stamp(DayOfDate(2014, 6, 30), Clock(17, 0), 0)

-----------------------------------------------------------------------------
(* Properties of the counts of the aliases *)

\* C26: the assertion count == int(count) of _maybe_add_count holds on every
\* path from infer_freq: each division that yields a count is guarded by the
\* matching test of divisibility.
C26_CountIsWhole == Called => result # Raise("AssertionError")

\* six months apart on the first business day of the month: the months
\* apart are divided by 3 and the count is 2
C26_Witness ==
    /\ Called /\ dtype = "M8" /\ Len(index) >= 3
    /\ mdiffs(Inferer) = <<6>>
    /\ result.kind = "return"
    /\ AliasOf(result.value, QuarterlyAliases)
    /\ SubSeq(result.value, 1, 1) = "2"

\* the remainder modulo q of the number written by the digits p
Remainder(p, q) ==
    LET r[i \in 0 .. Len(p)] ==
            IF i = 0 THEN 0 ELSE (r[i - 1] * 10 + Digit(SubSeq(p, i, i))) % q
    IN  r[Len(p)]

\* the alias a is a count followed by the unit, and q divides the count
CountDivisible(a, unit, q) ==
    /\ Len(a) > Len(unit)
    /\ SubSeq(a, Len(a) - Len(unit) + 1, Len(a)) = unit
    /\ LET p      == SubSeq(a, 1, Len(a) - Len(unit))
           digits == IF SubSeq(p, 1, 1) = "-" THEN SubSeq(p, 2, Len(p)) ELSE p
       IN  /\ digits = "0" \/ IsNumeral(digits)
           /\ Remainder(digits, q) = 0

\* C27: for a naive input, the count of a D alias is never divisible by 7,
\* the count of an H alias never by 24, the count of a T or S alias never by
\* 60 and the count of an L, U or N alias never by 1000.
C27_CountsReduced ==
    Called /\ tz = "naive" /\ result.kind = "return" =>
        /\ ~CountDivisible(result.value, "D", 7)
        /\ ~CountDivisible(result.value, "H", 24)
        /\ ~CountDivisible(result.value, "T", 60)
        /\ ~CountDivisible(result.value, "S", 60)
        /\ ~CountDivisible(result.value, "L", 1000)
        /\ ~CountDivisible(result.value, "U", 1000)
        /\ ~CountDivisible(result.value, "N", 1000)

\* 14 days apart: the count 14 is not put before D, the result is 2W-<DAY>
C27_Witness ==
    /\ Called /\ tz = "naive" /\ dtype = "M8" /\ Len(index) >= 3
    /\ RawDiffs = {Stamp(14, 0, 0)}
    /\ result.kind = "return"
    /\ SubSeq(result.value, 1, 3) = "2W-"

\* C28: the count of a monthly alias is never divisible by 3, such a spacing
\* being quarterly, and the count of a quarterly alias is never divisible by
\* 4, such a spacing being annual.
C28_CoarsestCalendarUnit ==
    Called /\ result.kind = "return" =>
        /\ \A a \in MonthlyAliases : ~CountDivisible(result.value, a, 3)
        /\ \A a \in QuarterlyAliases : ~CountDivisible(result.value, a, 4)

\* twelve months apart at the end of the month: an annual alias, not 4Q
C28_Witness ==
    /\ Called /\ dtype = "M8" /\ Len(index) >= 3
    /\ mdiffs(Inferer) = <<12>>
    /\ result.kind = "return"
    /\ AliasOf(result.value, AnnualAliases)

-----------------------------------------------------------------------------
(* Properties of timedelta inputs *)

\* C29: a timedelta input never gets an alias of a position in the calendar:
\* the result is None, BH, or one of D, W-<DAY>, H, T, S, L, U, N with or
\* without a count; a timedelta input whose smallest delta is a whole number
\* of days and whose deltas are not all equal gets None.
C29_TimedeltaAliases ==
    Called /\ dtype = "m8" /\ Len(index) >= 3 =>
        /\ result.kind = "return"
        /\ \/ result.value \in {None, "BH"}
           \/ AliasOf(result.value, DailyWeeklyAliases \cup {"H", "T", "S", "L", "U", "N"})
        /\ WholeDays(Smallest(RawDiffs)) /\ Cardinality(RawDiffs) > 1 =>
               result = Return(None)

\* 0 days, 1 day, 4 days, 5 days: as days from Thursday 1970-01-01 these
\* are consecutive business days
C29_Witness ==
    /\ Called /\ dtype = "m8"
    /\ index = <<Days(0), Days(1), Days(4), Days(5)>>
    /\ result = Return(None)

-----------------------------------------------------------------------------
(* Properties of the storage resolution *)

\* the input with its values stored in nanoseconds
InNanoseconds ==
    [i \in 1 .. Len(index) |->
        Stamp(index[i].d, index[i].s,
              index[i].f * (UnitsPerSecond("ns") \div UnitsPerSecond(creso)))]

\* the alias ends with the suffix
EndsWith(a, suffix) ==
    Len(a) >= Len(suffix) /\ SubSeq(a, Len(a) - Len(suffix) + 1, Len(a)) = suffix

\* C30: the inferred alias does not depend on the resolution in which the
\* input is stored (s, ms, us, ns); the weekday of a weekly alias is that of
\* the first timestamp of the input at every resolution.
C30_ResolutionIndependent ==
    Called /\ dtype = "M8" /\ Len(index) >= 3 =>
        /\ result = infer_freq(container, dtype, InNanoseconds, tz, "ns")
        /\ \A day \in DayNames :
               result.kind = "return" /\ EndsWith(result.value, "W-" \o day)
                   => day = DayName(Inferer.i8values[1].d)

=============================================================================
